---- MODULE Spec2Model ----
(***************************************************************************)
(* Model of the reconciliation core of terraform-provider-azurestack:      *)
(*   - the soft-delete / purge sequence of key vault keys and secrets      *)
(*     (deleteAndOptionallyPurge and the two resource Delete functions),   *)
(*   - the named locks taken by the subnet, subnet <-> route table         *)
(*     association and network interface <-> backend address pool          *)
(*     association resources around their remote read-modify-write cycles, *)
(*   - the Create / Read / Update / Delete functions of the public IP,     *)
(*     route table, virtual network peering, key vault and storage blob    *)
(*     resources against one remote object,                                *)
(*   - the key vault cache and its registry of per-vault locks, and        *)
(*   - the resource identifier formatters and parsers.                     *)
(***************************************************************************)
EXTENDS Integers, Sequences, FiniteSets, TLC

VARIABLES
    \* ---- soft-delete / purge (SpecPurge) ----
    caller,           \* "direct", "Key" or "Secret": who calls deleteAndOptionallyPurge
    purgeOnDestroy,   \* the provider's Features.KeyVault.PurgeSoftDeleteOnDestroy setting
    hasDeadline,      \* ctx.Deadline() reports a deadline
    shouldPurge,      \* the shouldPurge argument
    ppc,              \* position in the Delete function / deleteAndOptionallyPurge
    result,           \* "none" while running, then "ok" (nil) or "err"
    idCleared,        \* d.SetId("") was called
    calls,            \* the remote calls made so far, in order, with their answers
    now,              \* wall clock, in seconds
    targetOccurence,  \* StateChangeConf's count of consecutive target observations
    lastRefresh,      \* time of the running WaitForState's last Refresh, -1 before the first
    \* ---- named locks and the resources that use them (SpecLock, SpecNic) ----
    locked,           \* the registry: lock key -> the mutex is locked
    pc,               \* worker -> position in its operation
    op,               \* worker -> the operation it runs, with its arguments
    defers,           \* worker -> its stack of deferred Unlock calls (last in, first out)
    local,            \* worker -> the body it last read with Get (its local copy)
    rid,              \* worker -> the persisted identifier d.Id(), as its segments
    res,              \* worker -> "none" while running, then "ok" (nil) or "err"
    subnets,          \* remote: subnet name -> the subnet's body, or Absent
    nics,             \* remote: network interface name -> its body, or Absent
    opsDone,          \* worker -> operations completed so far
    \* ---- resource functions against one remote object (SpecCrud) ----
    ckind,            \* the resource type the running function belongs to
    cop,              \* "Create", "Read", "Update" or "Delete"; "none" between functions
    cpc,              \* position in the running function
    cid,              \* the persisted identifier d.Id(); NoId for the empty string
    cres,             \* "none" while running, then "ok" (nil) or "err"
    ccalls,           \* the remote calls of the running function, in order, with their answers
    cremote,          \* remote: the object's body, or Absent
    cstart,           \* the remote object as it was when the running function was called
    cgot,             \* the identifier in the answer of the function's last successful Get
    desired,          \* the configuration: d.Get of the fields the Update checks
    prior,            \* the prior state: what d.HasChange compares the configuration with
    cdone,            \* functions completed so far
    \* ---- key vault cache and its lock registry (SpecCache) ----
    kpc,              \* worker -> position in its cache function
    kop,              \* worker -> the cache function it runs and its cache key
    keysmith,         \* the worker that holds keysmith, or None
    lock,             \* the registry map: cache key -> the mutex stored under it
    held,             \* mutex -> the worker that holds it, or None
    keyVaultsCache,   \* cache key -> the cached key vault details
    nextMutex,        \* the next mutex &sync.RWMutex{} allocates
    kdone,            \* worker -> cache functions completed so far
    \* ---- resource identifier codec (SpecCodec) ----
    input,            \* the identifier string handed to a parser, as its characters
    origin,           \* the field set the string was formatted from
    parsed,           \* the parser's answer: an identifier value or ParseError
    dpc,               \* "new", "formatted", "recased" or "parsed"
    \* ---- storage account keys (SpecStorage) ----
    storageKeyCache,    \* the package-level map: account -> key, None for no entry
    storageKeyCacheMu,  \* the RWMutex: its writer and its readers
    listKeys,           \* per account, the answers of the ListKeys calls made so far
    \* ---- virtual network peering retry (SpecRetry) ----
    rpc,                \* position in resourceArmVirtualNetworkPeeringCreateUpdate
    elapsed,            \* seconds since resource.Retry was entered
    attempts,           \* the outcomes of the attempts made so far
    rres,               \* "none" while running, then "ok" or "err"
    \* ---- resources data source (SpecList) ----
    lpc,                \* position in dataSourceArmResourcesRead
    listValues,         \* the resources the listing answers, in order
    position,           \* the iterator's position in listValues
    resources           \* the resources collected so far

purgeVars == <<caller, purgeOnDestroy, hasDeadline, shouldPurge, ppc, result,
               idCleared, calls, now, targetOccurence, lastRefresh>>
lockVars == <<locked, pc, op, defers, local, rid, res, subnets, nics, opsDone>>
crudVars == <<ckind, cop, cpc, cid, cres, ccalls, cremote, cstart, cgot, desired,
              prior, cdone>>
cacheVars == <<kpc, kop, keysmith, lock, held, keyVaultsCache, nextMutex, kdone>>
codecVars == <<input, origin, parsed, dpc>>
auxVars == <<storageKeyCache, storageKeyCacheMu, listKeys, rpc, elapsed, attempts, rres,
             lpc, listValues, position, resources>>
restVars == <<crudVars, cacheVars, codecVars, auxVars>>
vars == <<purgeVars, lockVars, restVars>>

(***************************************************************************)
(* Soft-delete / purge.                                                    *)
(***************************************************************************)

\* Seconds are the unit of time; the clock advances in steps of one poll interval.
DeadlineTicks == 5

\* The answers of a remote call: err == nil; err != nil with HTTP 404; any other error.
Responses ==
    { [err |-> FALSE, status |-> 200],
      [err |-> TRUE,  status |-> 404],
      [err |-> TRUE,  status |-> 500] }

ResponseWasNotFound(resp) == resp.status = 404

\* StateChangeConf of the delete wait and of the purge wait.
DeleteStateConf ==
    [Pending |-> "InProgress", Target |-> "NotFound",
     ContinuousTargetOccurence |-> 3, PollInterval |-> 5]

PurgeStateConf ==
    [Pending |-> "InProgress", Target |-> "NotFound",
     ContinuousTargetOccurence |-> 3, PollInterval |-> 5]

Tick == DeleteStateConf.PollInterval
Deadline == DeadlineTicks * Tick

PurgeInitFrozen ==
    /\ caller = "direct" /\ purgeOnDestroy = FALSE /\ hasDeadline = TRUE
    /\ shouldPurge = FALSE /\ ppc = "done" /\ result = "none" /\ idCleared = FALSE
    /\ calls = <<>> /\ now = 0 /\ targetOccurence = 0 /\ lastRefresh = -1

PurgeInit ==
    /\ caller \in {"direct", "Key", "Secret"}
    /\ purgeOnDestroy \in BOOLEAN
    \* ForDelete always builds a context with a timeout; only a direct caller
    \* chooses the context and the shouldPurge argument freely.
    /\ hasDeadline \in (IF caller = "direct" THEN BOOLEAN ELSE {TRUE})
    /\ shouldPurge \in (IF caller = "direct" THEN BOOLEAN ELSE {FALSE})
    /\ ppc = (IF caller = "direct" THEN "entry" ELSE caller)
    /\ result = "none" /\ idCleared = FALSE
    /\ calls = <<>> /\ now = 0 /\ targetOccurence = 0 /\ lastRefresh = -1

Called(name, resp) == Append(calls, [op |-> name, resp |-> resp, at |-> now])

Return(r) == ppc' = "done" /\ result' = r

\* What precedes the call of deleteAndOptionallyPurge in a resource Delete:
\* ParseNestedItemID, KeyVaultIDFromBaseUrl, VaultID and KeyVaultExists.
PreludeOutcomes ==
    {"ParseNestedItemID failed", "KeyVaultIDFromBaseUrl failed", "KeyVaultIDFromBaseUrl nil",
     "VaultID failed", "KeyVaultExists failed", "vault absent", "vault exists"}

\* shouldPurge := true -- the feature flag is not read.
ResourceShouldPurge(feature) == TRUE

NestedItemDelete(kind) ==
    /\ ppc = kind
    /\ \E o \in PreludeOutcomes :
        IF o = "vault exists"
        THEN /\ shouldPurge' = ResourceShouldPurge(purgeOnDestroy)
             /\ ppc' = "entry"
             /\ UNCHANGED <<result, idCleared>>
        ELSE IF o = "vault absent"
        THEN /\ idCleared' = TRUE
             /\ Return("ok")
             /\ UNCHANGED shouldPurge
        ELSE /\ Return("err")
             /\ UNCHANGED <<shouldPurge, idCleared>>
    /\ UNCHANGED <<caller, purgeOnDestroy, hasDeadline, calls, now, targetOccurence,
                   lastRefresh, lockVars, restVars>>

resourceArmKeyVaultKeyDelete == NestedItemDelete("Key")

resourceArmKeyVaultSecretDelete == NestedItemDelete("Secret")

\* timeout, ok := ctx.Deadline(); if !ok { return error }
CheckDeadline ==
    /\ ppc = "entry"
    /\ IF hasDeadline THEN ppc' = "delete" /\ UNCHANGED result ELSE Return("err")
    /\ UNCHANGED <<caller, purgeOnDestroy, hasDeadline, shouldPurge, idCleared, calls, now,
                   targetOccurence, lastRefresh, lockVars, restVars>>

\* AfterDeleteNestedItem without the not-found case.
AfterDeleteNestedItemNoNotFound(resp) == IF resp.err THEN "return err" ELSE "wait"

\* The three ways on from the answer of helper.DeleteNestedItem.
AfterDeleteNestedItem(resp) ==
    IF resp.err
    THEN IF ResponseWasNotFound(resp) THEN "return nil" ELSE "return err"
    ELSE "wait"

DeleteNestedItem ==
    /\ ppc = "delete"
    /\ \E resp \in Responses :
        /\ calls' = Called("DeleteNestedItem", resp)
        /\ CASE AfterDeleteNestedItem(resp) = "return nil" ->
                    Return("ok") /\ UNCHANGED <<targetOccurence, lastRefresh>>
             [] AfterDeleteNestedItem(resp) = "return err" ->
                    Return("err") /\ UNCHANGED <<targetOccurence, lastRefresh>>
             [] OTHER ->
                    /\ ppc' = "waitDeleted" /\ targetOccurence' = 0 /\ lastRefresh' = -1
                    /\ UNCHANGED result
    /\ UNCHANGED <<caller, purgeOnDestroy, hasDeadline, shouldPurge, idCleared, now, lockVars, restVars>>

\* Refresh reporting the target state also while the item is still found.
RefreshFoundAsNotFound(resp) ==
    IF resp.err /\ ~ResponseWasNotFound(resp)
    THEN [state |-> "Error", err |-> TRUE]
    ELSE [state |-> "NotFound", err |-> FALSE]

\* Refresh keeping the wait going on an error that is not a not-found.
RefreshSwallowError(resp) ==
    IF resp.err /\ ResponseWasNotFound(resp)
    THEN [state |-> "NotFound", err |-> FALSE]
    ELSE [state |-> "InProgress", err |-> FALSE]

\* The Refresh function of a wait: the state it reports for an answer.
Refresh(resp) ==
    IF resp.err
    THEN IF ResponseWasNotFound(resp)
         THEN [state |-> "NotFound", err |-> FALSE]
         ELSE [state |-> "Error", err |-> TRUE]
    ELSE [state |-> "InProgress", err |-> FALSE]

\* One round of StateChangeConf.WaitForState after a Refresh: the new count of
\* consecutive target observations and whether the wait goes on, has reached its
\* target or fails.
WaitForStateStep(conf, r, count) ==
    IF r.err THEN [outcome |-> "error", count |-> count]
    ELSE IF r.state = conf.Target
    THEN IF count + 1 = conf.ContinuousTargetOccurence
         THEN [outcome |-> "reached", count |-> count + 1]
         ELSE [outcome |-> "continue", count |-> count + 1]
    ELSE IF r.state = conf.Pending
    THEN [outcome |-> "continue", count |-> 0]
    ELSE [outcome |-> "error", count |-> count]

\* The first Refresh of a wait is immediate, the next ones a poll interval apart.
RefreshDue(conf) == lastRefresh = -1 \/ now >= lastRefresh + conf.PollInterval

\* AfterWaitForState with the error of WaitForState dropped.
AfterWaitForStateIgnoreErr(waitFailed, next) ==
    [ppc |-> next, result |-> IF next = "done" THEN "ok" ELSE "none"]

\* if _, err := stateConf.WaitForState(); err != nil { return error }
AfterWaitForState(waitFailed, next) ==
    IF waitFailed
    THEN [ppc |-> "done", result |-> "err"]
    ELSE [ppc |-> next, result |-> IF next = "done" THEN "ok" ELSE "none"]

WaitRound(at, conf, name, next) ==
    /\ ppc = at
    /\ now < Deadline
    /\ RefreshDue(conf)
    /\ \E resp \in Responses :
        LET step == WaitForStateStep(conf, Refresh(resp), targetOccurence) IN
        /\ calls' = Called(name, resp)
        /\ targetOccurence' = step.count
        /\ lastRefresh' = now
        /\ CASE step.outcome = "continue" -> UNCHANGED <<ppc, result>>
             [] step.outcome = "reached" ->
                    /\ ppc' = AfterWaitForState(FALSE, next).ppc
                    /\ result' = AfterWaitForState(FALSE, next).result
             [] OTHER ->
                    /\ ppc' = AfterWaitForState(TRUE, next).ppc
                    /\ result' = AfterWaitForState(TRUE, next).result
    /\ UNCHANGED <<caller, purgeOnDestroy, hasDeadline, shouldPurge, idCleared, now, lockVars, restVars>>

\* The wait's Timeout (time.Until(timeout)) has run out: WaitForState fails.
WaitTimeout(at, next) ==
    /\ ppc = at
    /\ now >= Deadline
    /\ ppc' = AfterWaitForState(TRUE, next).ppc
    /\ result' = AfterWaitForState(TRUE, next).result
    /\ UNCHANGED <<caller, purgeOnDestroy, hasDeadline, shouldPurge, idCleared, calls, now,
                   targetOccurence, lastRefresh, lockVars, restVars>>

NestedItemHasBeenDeleted ==
    WaitRound("waitDeleted", DeleteStateConf, "NestedItemHasBeenDeleted", "deleted")

DeleteWaitTimeout == WaitTimeout("waitDeleted", "deleted")

\* SkipPurge returning early whatever shouldPurge says.
SkipPurgeAlways(purge) == TRUE

\* SkipPurge with the test inverted.
SkipPurgeInverted(purge) == purge

\* if !shouldPurge { return nil }
SkipPurge(purge) == ~purge

CheckShouldPurge ==
    /\ ppc = "deleted"
    /\ IF SkipPurge(shouldPurge) THEN Return("ok") ELSE ppc' = "purge" /\ UNCHANGED result
    /\ UNCHANGED <<caller, purgeOnDestroy, hasDeadline, shouldPurge, idCleared, calls, now,
                   targetOccurence, lastRefresh, lockVars, restVars>>

\* if _, err := helper.PurgeNestedItem(ctx); err != nil { return error }
AfterPurgeNestedItem(resp) == IF resp.err THEN "return err" ELSE "wait"

PurgeNestedItem ==
    /\ ppc = "purge"
    /\ \E resp \in Responses :
        /\ calls' = Called("PurgeNestedItem", resp)
        /\ IF AfterPurgeNestedItem(resp) = "return err"
           THEN Return("err") /\ UNCHANGED <<targetOccurence, lastRefresh>>
           ELSE /\ ppc' = "waitPurged" /\ targetOccurence' = 0 /\ lastRefresh' = -1
                /\ UNCHANGED result
    /\ UNCHANGED <<caller, purgeOnDestroy, hasDeadline, shouldPurge, idCleared, now, lockVars, restVars>>

NestedItemHasBeenPurged ==
    WaitRound("waitPurged", PurgeStateConf, "NestedItemHasBeenPurged", "done")

PurgeWaitTimeout == WaitTimeout("waitPurged", "done")

\* Time passes, one poll interval at a time, while the call runs.
Clock ==
    /\ ppc # "done"
    /\ now < Deadline
    /\ now' = now + Tick
    /\ UNCHANGED <<caller, purgeOnDestroy, hasDeadline, shouldPurge, ppc, result, idCleared,
                   calls, targetOccurence, lastRefresh, lockVars, restVars>>

deleteAndOptionallyPurge ==
    \/ CheckDeadline
    \/ DeleteNestedItem
    \/ NestedItemHasBeenDeleted
    \/ DeleteWaitTimeout
    \/ CheckShouldPurge
    \/ PurgeNestedItem
    \/ NestedItemHasBeenPurged
    \/ PurgeWaitTimeout

PurgeNext ==
    \/ resourceArmKeyVaultKeyDelete
    \/ resourceArmKeyVaultSecretDelete
    \/ deleteAndOptionallyPurge
    \/ Clock

(***************************************************************************)
(* Properties of the soft-delete / purge sequence.                         *)
(***************************************************************************)

NotFoundAnswer(c) == c.resp.err /\ c.resp.status = 404
OtherError(c) == c.resp.err /\ c.resp.status # 404
IsPoll(c) == c.op \in {"NestedItemHasBeenDeleted", "NestedItemHasBeenPurged"}
PurgeCalls(log) == {i \in 1..Len(log) : log[i].op = "PurgeNestedItem"}

\* The last three calls of the log are not-found answers of the poll `name`.
EndsWithThreeNotFound(log, name) ==
    /\ Len(log) >= 3
    /\ \A k \in 0..2 : log[Len(log) - k].op = name /\ NotFoundAnswer(log[Len(log) - k])

\* The log of a full run: delete, delete-convergence, one purge, purge-convergence.
PurgedOnceInOrder ==
    \E i \in 1..Len(calls) :
        /\ PurgeCalls(calls) = {i}
        /\ EndsWithThreeNotFound(SubSeq(calls, 1, i - 1), "NestedItemHasBeenDeleted")
        /\ \A j \in (i + 1)..Len(calls) : calls[j].op = "NestedItemHasBeenPurged"
        /\ EndsWithThreeNotFound(calls, "NestedItemHasBeenPurged")

DeleteAnsweredNotFound ==
    Len(calls) = 1 /\ calls[1].op = "DeleteNestedItem" /\ NotFoundAnswer(calls[1])

\* C4 as stated: every successful call with shouldPurge=true has purged exactly
\* once, after the delete-convergence poll, and completed the purge-convergence poll.
C4_SuccessImpliesPurgedOnce ==
    (result = "ok" /\ shouldPurge) => PurgedOnceInOrder

\* C4 amended: a successful call with shouldPurge=true either got not-found from
\* the initial DeleteNestedItem and made no other remote call, or purged exactly
\* once after the delete-convergence poll and completed the purge-convergence poll.
C4_SuccessImpliesPurgedOnceOrDeleteNotFound ==
    (result = "ok" /\ shouldPurge) => (DeleteAnsweredNotFound \/ PurgedOnceInOrder)

C4_Witness ==
    result = "ok" /\ shouldPurge /\ caller = "direct" /\ PurgedOnceInOrder

\* C5: with shouldPurge=false neither PurgeNestedItem nor NestedItemHasBeenPurged
\* is ever called, and the call never goes past the delete-convergence poll.
C5_NoPurgeWithoutShouldPurge ==
    ~shouldPurge =>
        /\ ppc \notin {"purge", "waitPurged"}
        /\ \A i \in 1..Len(calls) :
              calls[i].op \notin {"PurgeNestedItem", "NestedItemHasBeenPurged"}

C5_Witness ==
    /\ caller = "direct" /\ ~shouldPurge /\ result = "ok"
    /\ EndsWithThreeNotFound(calls, "NestedItemHasBeenDeleted")

\* A wait of deleteAndOptionallyPurge declares success in this step.
DeclaresSuccess(name) ==
    IF name = "NestedItemHasBeenDeleted"
    THEN ppc = "waitDeleted" /\ ppc' = "deleted"
    ELSE ppc = "waitPurged" /\ ppc' = "done" /\ result' = "ok"

SuccessAfterThreeSpacedNotFound(name) ==
    DeclaresSuccess(name) =>
        LET n == Len(calls') IN
        /\ EndsWithThreeNotFound(calls', name)
        /\ calls'[n].at >= calls'[n - 1].at + 5
        /\ calls'[n - 1].at >= calls'[n - 2].at + 5
        \* the count restarted at the last observation that found the item
        /\ n - 3 >= 1 /\ calls'[n - 3].op = name => ~NotFoundAnswer(calls'[n - 3])

\* C6: each convergence poll declares success only on the third of three
\* consecutive not-found observations taken at least 5 seconds apart.
C6_ThreeConsecutiveNotFound ==
    [][ /\ SuccessAfterThreeSpacedNotFound("NestedItemHasBeenDeleted")
        /\ SuccessAfterThreeSpacedNotFound("NestedItemHasBeenPurged") ]_vars

\* The delete wait succeeded although an earlier observation found the item.
C6_Witness ==
    /\ ppc = "deleted"
    /\ EndsWithThreeNotFound(calls, "NestedItemHasBeenDeleted")
    /\ \E i \in 1..Len(calls) :
          calls[i].op = "NestedItemHasBeenDeleted" /\ ~calls[i].resp.err

\* C7: an observation that fails with an error other than not-found is the last
\* remote call of the run, and the run has returned an error.
C7_PollErrorIsFatal ==
    \A i \in 1..Len(calls) :
        (IsPoll(calls[i]) /\ OtherError(calls[i])) =>
            i = Len(calls) /\ ppc = "done" /\ result = "err"

C7_Witness ==
    /\ Len(calls) >= 3
    /\ calls[Len(calls)].op = "NestedItemHasBeenPurged" /\ OtherError(calls[Len(calls)])
    /\ NotFoundAnswer(calls[Len(calls) - 1])
    /\ result = "err"

\* C8: a not-found answer of the initial DeleteNestedItem ends the call with
\* success, any other error of it ends the call with an error.
C8_DeleteNotFoundIsSuccess ==
    (Len(calls) >= 1 /\ calls[1].resp.err) =>
        /\ Len(calls) = 1 /\ ppc = "done"
        /\ result = (IF NotFoundAnswer(calls[1]) THEN "ok" ELSE "err")

C8_Witness == DeleteAnsweredNotFound /\ result = "ok" /\ ppc = "done"

\* C9: a wait that is still short of its three not-found observations when the
\* deadline has passed ends in an error; a context without a deadline is
\* refused with an error before any remote call.
C9_DeadlineIsFatal ==
    /\ [](~hasDeadline => calls = <<>> /\ (ppc = "done" => result = "err"))
    /\ [][ (ppc \in {"waitDeleted", "waitPurged"} /\ now >= Deadline /\ ppc' # ppc)
              => ppc' = "done" /\ result' = "err" ]_vars

\* The deadline passed in the middle of a run of not-found observations.
C9_Witness ==
    /\ ppc = "done" /\ result = "err" /\ now >= Deadline
    /\ Len(calls) >= 2
    /\ IsPoll(calls[Len(calls)]) /\ NotFoundAnswer(calls[Len(calls)])

\* C10 as stated: with the purge-on-destroy policy off, a resource Delete of a
\* key or a secret never issues a purge.
C10_PolicyOffNeverPurges ==
    (caller \in {"Key", "Secret"} /\ ~purgeOnDestroy) => PurgeCalls(calls) = {}

(***************************************************************************)
(* Named locks.                                                            *)
(***************************************************************************)

Workers == {"w1", "w2"}
MaxOps == 1

None == "none"
\* What Get finds where no resource is: the 404 answer.
Absent == [absent |-> TRUE]
\* A worker that holds no body read with Get.
NoBody == [nobody |-> TRUE]
NoOp == [kind |-> None]
\* d.Id() of a resource without identifier: the empty string.
NoId == <<>>

\* The category argument of azureStackLockByName.
virtualNetworkResourceName == "azurestack_virtual_network"
networkSecurityGroupResourceName == "azurestack_network_security_group"
routeTableResourceName == "azurestack_route_table"
subnetResourceName == "azurestack_subnet"
networkInterfaceResourceName == "azurestack_network_interface"

\* The lock that azureStackLockByName(name, category) takes.
LockKey(name, category) == <<category, name>>

LockInitFrozen ==
    /\ locked = {}
    /\ pc = [w \in Workers |-> "idle"] /\ op = [w \in Workers |-> NoOp]
    /\ defers = [w \in Workers |-> <<>>] /\ local = [w \in Workers |-> NoBody]
    /\ rid = [w \in Workers |-> NoId] /\ res = [w \in Workers |-> "none"]
    /\ subnets = <<>> /\ nics = <<>> /\ opsDone = [w \in Workers |-> 0]

\* No resource function of SpecCrud running, no remote object.
CrudInitFrozen ==
    /\ ckind = None /\ cop = None /\ cpc = "idle" /\ cid = NoId /\ cres = "none"
    /\ ccalls = <<>> /\ cremote = Absent /\ cstart = Absent /\ cgot = NoId
    /\ desired = NoBody /\ prior = NoBody /\ cdone = 0

\* No cache function running, an empty registry and an empty cache.
CacheInitFrozen ==
    /\ kpc = [w \in Workers |-> "idle"] /\ kop = [w \in Workers |-> NoOp]
    /\ keysmith = None /\ lock = <<>> /\ held = <<>> /\ keyVaultsCache = <<>>
    /\ nextMutex = 1 /\ kdone = [w \in Workers |-> 0]

\* No identifier string under the parsers.
CodecInitFrozen ==
    /\ input = <<>> /\ origin = NoBody /\ parsed = NoBody /\ dpc = "new"

StorageInitFrozen ==
    /\ storageKeyCache = <<>> /\ storageKeyCacheMu = None /\ listKeys = <<>>

RetryInitFrozen ==
    /\ rpc = "idle" /\ elapsed = 0 /\ attempts = <<>> /\ rres = "none"

ListInitFrozen ==
    /\ lpc = "idle" /\ listValues = <<>> /\ position = 0 /\ resources = <<>>

AuxInitFrozen == StorageInitFrozen /\ RetryInitFrozen /\ ListInitFrozen

RestInitFrozen == CrudInitFrozen /\ CacheInitFrozen /\ CodecInitFrozen /\ AuxInitFrozen

\* The named mutex: Lock blocks while the mutex is locked; Unlock releases it.
azureStackLockByName(key) == key \notin locked /\ locked' = locked \cup {key}

azureStackUnlockByName(key) == locked' = locked \ {key}

\* The deferred Unlock alone, with the Lock call left out.
DeferWithoutLock(w, key) ==
    /\ defers' = [defers EXCEPT ![w] = <<key>> \o @]
    /\ UNCHANGED locked

\* azureStackLockByName(name, category) followed by
\* defer azureStackUnlockByName(name, category): the caller blocks while the
\* mutex is locked, then locks it and pushes the deferred Unlock.
LockAndDefer(w, key) ==
    /\ azureStackLockByName(key)
    /\ defers' = [defers EXCEPT ![w] = <<key>> \o @]

Goto(w, label) == pc' = [pc EXCEPT ![w] = label]

\* return err / return nil: the deferred calls run next.
ReturnWith(w, r) == pc' = [pc EXCEPT ![w] = "return"] /\ res' = [res EXCEPT ![w] = r]

\* One deferred azureStackUnlockByName runs, last deferred first.
RunDeferred(w) ==
    /\ pc[w] = "return"
    /\ defers[w] # <<>>
    /\ azureStackUnlockByName(Head(defers[w]))
    /\ defers' = [defers EXCEPT ![w] = Tail(@)]
    /\ UNCHANGED <<pc, op, local, rid, res, subnets, nics, opsDone, purgeVars, restVars>>

\* The operation has returned to the framework.
Finish(w) ==
    /\ pc[w] = "return"
    /\ defers[w] = <<>>
    /\ pc' = [pc EXCEPT ![w] = "idle"]
    /\ op' = [op EXCEPT ![w] = NoOp]
    /\ local' = [local EXCEPT ![w] = NoBody]
    /\ rid' = [rid EXCEPT ![w] = NoId]
    /\ res' = [res EXCEPT ![w] = "none"]
    /\ opsDone' = [opsDone EXCEPT ![w] = @ + 1]
    /\ UNCHANGED <<locked, defers, subnets, nics, purgeVars, restVars>>

(***************************************************************************)
(* Subnets and subnet <-> route table associations.                        *)
(***************************************************************************)

SubnetNames == {"subnet1"}
VnetName == "vnet1"
RouteTables == {"rt1", "rt2"}
SecurityGroups == {"nsg1"}

\* A subnet's body: the route table and the network security group attached.
SubnetBodies == [rt : RouteTables \cup {None}, nsg : SecurityGroups \cup {None}]

\* What a remote mutating call and the wait for its completion may answer.
CallOutcomes == {"ok", "err"}

SubnetOps ==
    [kind : {"SubnetCreate", "SubnetDelete"}, subnet : SubnetNames,
     nsg : SecurityGroups \cup {None}, rt : RouteTables \cup {None}]
    \cup [kind : {"AssocCreate"}, subnet : SubnetNames, nsg : {None}, rt : RouteTables]
    \cup [kind : {"AssocDelete"}, subnet : SubnetNames, nsg : {None}, rt : {None}]

\* The framework calls a resource function on a free worker.  Delete functions
\* run on a resource that has a persisted identifier.
BeginSubnetOp(w) ==
    /\ pc[w] = "idle"
    /\ opsDone[w] < MaxOps
    /\ \E o \in SubnetOps :
        /\ op' = [op EXCEPT ![w] = o]
        /\ rid' = [rid EXCEPT ![w] =
                     IF o.kind \in {"SubnetDelete", "AssocDelete"} THEN <<o.subnet>> ELSE NoId]
        /\ pc' = [pc EXCEPT ![w] = o.kind]
    /\ UNCHANGED <<locked, defers, local, res, subnets, nics, opsDone, purgeVars, restVars>>

\* ---- resourceArmSubnetCreate ----

SubnetCreateLockVnet(w) ==
    /\ pc[w] = "SubnetCreate"
    /\ LockAndDefer(w, LockKey(VnetName, virtualNetworkResourceName))
    /\ Goto(w, "SubnetCreate:nsg")
    /\ UNCHANGED <<op, local, rid, res, subnets, nics, opsDone, purgeVars, restVars>>

SubnetCreateLockNsg(w) ==
    /\ pc[w] = "SubnetCreate:nsg"
    /\ IF op[w].nsg # None
       THEN LockAndDefer(w, LockKey(op[w].nsg, networkSecurityGroupResourceName))
       ELSE UNCHANGED <<locked, defers>>
    /\ Goto(w, "SubnetCreate:rt")
    /\ UNCHANGED <<op, local, rid, res, subnets, nics, opsDone, purgeVars, restVars>>

SubnetCreateLockRouteTable(w) ==
    /\ pc[w] = "SubnetCreate:rt"
    /\ IF op[w].rt # None
       THEN LockAndDefer(w, LockKey(op[w].rt, routeTableResourceName))
       ELSE UNCHANGED <<locked, defers>>
    /\ Goto(w, "SubnetCreate:put")
    /\ UNCHANGED <<op, local, rid, res, subnets, nics, opsDone, purgeVars, restVars>>

\* client.CreateOrUpdate and future.WaitForCompletionRef
SubnetCreatePut(w) ==
    /\ pc[w] = "SubnetCreate:put"
    /\ \E out \in CallOutcomes :
        IF out = "err"
        THEN ReturnWith(w, "err") /\ UNCHANGED subnets
        ELSE /\ subnets' = [subnets EXCEPT ![op[w].subnet] =
                               [rt |-> op[w].rt, nsg |-> op[w].nsg]]
             /\ Goto(w, "SubnetCreate:get") /\ UNCHANGED res
    /\ UNCHANGED <<locked, op, defers, local, rid, nics, opsDone, purgeVars, restVars>>

\* read, err := client.Get(...); d.SetId(*read.ID)
SubnetCreateGet(w) ==
    /\ pc[w] = "SubnetCreate:get"
    /\ \E out \in CallOutcomes :
        IF out = "err" \/ subnets[op[w].subnet] = Absent
        THEN ReturnWith(w, "err") /\ UNCHANGED rid
        ELSE /\ rid' = [rid EXCEPT ![w] = <<op[w].subnet>>]
             /\ Goto(w, "SubnetRead") /\ UNCHANGED res
    /\ UNCHANGED <<locked, op, defers, local, subnets, nics, opsDone, purgeVars, restVars>>

\* resourceArmSubnetRead, called at the end of Create
SubnetRead(w) ==
    /\ pc[w] = "SubnetRead"
    /\ \E out \in CallOutcomes :
        IF out = "err"
        THEN ReturnWith(w, "err") /\ UNCHANGED rid
        ELSE IF subnets[op[w].subnet] = Absent
        THEN rid' = [rid EXCEPT ![w] = NoId] /\ ReturnWith(w, "ok")
        ELSE ReturnWith(w, "ok") /\ UNCHANGED rid
    /\ UNCHANGED <<locked, op, defers, local, subnets, nics, opsDone, purgeVars, restVars>>

\* ---- resourceArmSubnetDelete ----

SubnetDeleteLockNsg(w) ==
    /\ pc[w] = "SubnetDelete"
    /\ IF op[w].nsg # None
       THEN LockAndDefer(w, LockKey(op[w].nsg, networkSecurityGroupResourceName))
       ELSE UNCHANGED <<locked, defers>>
    /\ Goto(w, "SubnetDelete:vnet")
    /\ UNCHANGED <<op, local, rid, res, subnets, nics, opsDone, purgeVars, restVars>>

SubnetDeleteLockVnet(w) ==
    /\ pc[w] = "SubnetDelete:vnet"
    /\ LockAndDefer(w, LockKey(VnetName, virtualNetworkResourceName))
    /\ Goto(w, "SubnetDelete:subnet")
    /\ UNCHANGED <<op, local, rid, res, subnets, nics, opsDone, purgeVars, restVars>>

SubnetDeleteLockSubnet(w) ==
    /\ pc[w] = "SubnetDelete:subnet"
    /\ LockAndDefer(w, LockKey(op[w].subnet, subnetResourceName))
    /\ Goto(w, IF op[w].rt # None THEN "SubnetDelete:rt" ELSE "SubnetDelete:delete")
    /\ UNCHANGED <<op, local, rid, res, subnets, nics, opsDone, purgeVars, restVars>>

SubnetDeleteLockRouteTable(w) ==
    /\ pc[w] = "SubnetDelete:rt"
    /\ LockAndDefer(w, LockKey(op[w].rt, routeTableResourceName))
    /\ Goto(w, "SubnetDelete:get")
    /\ UNCHANGED <<op, local, rid, res, subnets, nics, opsDone, purgeVars, restVars>>

\* resp, err := client.Get(...); resp.SubnetPropertiesFormat.RouteTable = nil
SubnetDeleteGet(w) ==
    /\ pc[w] = "SubnetDelete:get"
    /\ \E out \in CallOutcomes :
        IF out = "err"
        THEN ReturnWith(w, "err") /\ UNCHANGED <<rid, local>>
        ELSE IF subnets[op[w].subnet] = Absent
        THEN /\ rid' = [rid EXCEPT ![w] = NoId]
             /\ ReturnWith(w, "ok") /\ UNCHANGED local
        ELSE /\ local' = [local EXCEPT ![w] = [subnets[op[w].subnet] EXCEPT !.rt = None]]
             /\ Goto(w, "SubnetDelete:put") /\ UNCHANGED <<rid, res>>
    /\ UNCHANGED <<locked, op, defers, subnets, nics, opsDone, purgeVars, restVars>>

\* the CreateOrUpdate that dissociates the route table
SubnetDeletePut(w) ==
    /\ pc[w] = "SubnetDelete:put"
    /\ \E out \in CallOutcomes :
        IF out = "err"
        THEN ReturnWith(w, "err") /\ UNCHANGED subnets
        ELSE /\ subnets' = [subnets EXCEPT ![op[w].subnet] = local[w]]
             /\ Goto(w, "SubnetDelete:delete") /\ UNCHANGED res
    /\ UNCHANGED <<locked, op, defers, local, rid, nics, opsDone, purgeVars, restVars>>

\* client.Delete and future.WaitForCompletionRef
SubnetDeleteDelete(w) ==
    /\ pc[w] = "SubnetDelete:delete"
    /\ \E out \in CallOutcomes :
        IF out = "err"
        THEN ReturnWith(w, "err") /\ UNCHANGED subnets
        ELSE /\ subnets' = [subnets EXCEPT ![op[w].subnet] = Absent]
             /\ ReturnWith(w, "ok")
    /\ UNCHANGED <<locked, op, defers, local, rid, nics, opsDone, purgeVars, restVars>>

\* ---- resourceArmSubnetRouteTableAssociationCreate ----

AssocCreateLockRouteTable(w) ==
    /\ pc[w] = "AssocCreate"
    /\ LockAndDefer(w, LockKey(op[w].rt, routeTableResourceName))
    /\ Goto(w, "AssocCreate:vnet")
    /\ UNCHANGED <<op, local, rid, res, subnets, nics, opsDone, purgeVars, restVars>>

AssocCreateLockVnet(w) ==
    /\ pc[w] = "AssocCreate:vnet"
    /\ LockAndDefer(w, LockKey(VnetName, virtualNetworkResourceName))
    /\ Goto(w, "AssocCreate:get")
    /\ UNCHANGED <<op, local, rid, res, subnets, nics, opsDone, purgeVars, restVars>>

\* Get; a subnet that has a route table must be imported; props.RouteTable = ...
AssocCreateGet(w) ==
    /\ pc[w] = "AssocCreate:get"
    /\ \E out \in CallOutcomes :
        IF out = "err" \/ subnets[op[w].subnet] = Absent
        THEN ReturnWith(w, "err") /\ UNCHANGED local
        ELSE IF subnets[op[w].subnet].rt # None
        THEN ReturnWith(w, "err") /\ UNCHANGED local
        ELSE /\ local' = [local EXCEPT ![w] = [subnets[op[w].subnet] EXCEPT !.rt = op[w].rt]]
             /\ Goto(w, "AssocCreate:put") /\ UNCHANGED res
    /\ UNCHANGED <<locked, op, defers, rid, subnets, nics, opsDone, purgeVars, restVars>>

AssocCreatePut(w) ==
    /\ pc[w] = "AssocCreate:put"
    /\ \E out \in CallOutcomes :
        IF out = "err"
        THEN ReturnWith(w, "err") /\ UNCHANGED subnets
        ELSE /\ subnets' = [subnets EXCEPT ![op[w].subnet] = local[w]]
             /\ Goto(w, "AssocCreate:confirm") /\ UNCHANGED res
    /\ UNCHANGED <<locked, op, defers, local, rid, nics, opsDone, purgeVars, restVars>>

\* read, err := client.Get(...); d.SetId(*read.ID)
AssocCreateConfirm(w) ==
    /\ pc[w] = "AssocCreate:confirm"
    /\ \E out \in CallOutcomes :
        IF out = "err" \/ subnets[op[w].subnet] = Absent
        THEN ReturnWith(w, "err") /\ UNCHANGED rid
        ELSE /\ rid' = [rid EXCEPT ![w] = <<op[w].subnet>>]
             /\ Goto(w, "AssocRead") /\ UNCHANGED res
    /\ UNCHANGED <<locked, op, defers, local, subnets, nics, opsDone, purgeVars, restVars>>

\* resourceArmSubnetRouteTableAssociationRead, called at the end of Create
AssocRead(w) ==
    /\ pc[w] = "AssocRead"
    /\ \E out \in CallOutcomes :
        IF out = "err"
        THEN ReturnWith(w, "err") /\ UNCHANGED rid
        ELSE IF subnets[op[w].subnet] = Absent \/ subnets[op[w].subnet].rt = None
        THEN rid' = [rid EXCEPT ![w] = NoId] /\ ReturnWith(w, "ok")
        ELSE ReturnWith(w, "ok") /\ UNCHANGED rid
    /\ UNCHANGED <<locked, op, defers, local, subnets, nics, opsDone, purgeVars, restVars>>

\* ---- resourceArmSubnetRouteTableAssociationDelete ----

\* the first Get, made before any lock is held: it finds the route table to lock on
AssocDeleteGet(w) ==
    /\ pc[w] = "AssocDelete"
    /\ \E out \in CallOutcomes :
        IF out = "err"
        THEN ReturnWith(w, "err") /\ UNCHANGED local
        ELSE IF subnets[op[w].subnet] = Absent \/ subnets[op[w].subnet].rt = None
        THEN ReturnWith(w, "ok") /\ UNCHANGED local
        ELSE /\ local' = [local EXCEPT ![w] = subnets[op[w].subnet]]
             /\ Goto(w, "AssocDelete:rt") /\ UNCHANGED res
    /\ UNCHANGED <<locked, op, defers, rid, subnets, nics, opsDone, purgeVars, restVars>>

AssocDeleteLockRouteTable(w) ==
    /\ pc[w] = "AssocDelete:rt"
    /\ LockAndDefer(w, LockKey(local[w].rt, routeTableResourceName))
    /\ Goto(w, "AssocDelete:vnet")
    /\ UNCHANGED <<op, local, rid, res, subnets, nics, opsDone, purgeVars, restVars>>

AssocDeleteLockVnet(w) ==
    /\ pc[w] = "AssocDelete:vnet"
    /\ LockAndDefer(w, LockKey(VnetName, virtualNetworkResourceName))
    /\ Goto(w, "AssocDelete:reget")
    /\ UNCHANGED <<op, local, rid, res, subnets, nics, opsDone, purgeVars, restVars>>

\* the second Get, made under the locks; read.SubnetPropertiesFormat.RouteTable = nil
AssocDeleteReGet(w) ==
    /\ pc[w] = "AssocDelete:reget"
    /\ \E out \in CallOutcomes :
        IF out = "err"
        THEN ReturnWith(w, "err") /\ UNCHANGED local
        ELSE IF subnets[op[w].subnet] = Absent
        THEN ReturnWith(w, "ok") /\ UNCHANGED local
        ELSE /\ local' = [local EXCEPT ![w] = [subnets[op[w].subnet] EXCEPT !.rt = None]]
             /\ Goto(w, "AssocDelete:put") /\ UNCHANGED res
    /\ UNCHANGED <<locked, op, defers, rid, subnets, nics, opsDone, purgeVars, restVars>>

AssocDeletePut(w) ==
    /\ pc[w] = "AssocDelete:put"
    /\ \E out \in CallOutcomes :
        IF out = "err"
        THEN ReturnWith(w, "err") /\ UNCHANGED subnets
        ELSE /\ subnets' = [subnets EXCEPT ![op[w].subnet] = local[w]]
             /\ ReturnWith(w, "ok")
    /\ UNCHANGED <<locked, op, defers, local, rid, nics, opsDone, purgeVars, restVars>>

resourceArmSubnetCreate(w) ==
    \/ SubnetCreateLockVnet(w)
    \/ SubnetCreateLockNsg(w)
    \/ SubnetCreateLockRouteTable(w)
    \/ SubnetCreatePut(w)
    \/ SubnetCreateGet(w)
    \/ SubnetRead(w)

resourceArmSubnetDelete(w) ==
    \/ SubnetDeleteLockNsg(w)
    \/ SubnetDeleteLockVnet(w)
    \/ SubnetDeleteLockSubnet(w)
    \/ SubnetDeleteLockRouteTable(w)
    \/ SubnetDeleteGet(w)
    \/ SubnetDeletePut(w)
    \/ SubnetDeleteDelete(w)

resourceArmSubnetRouteTableAssociationCreate(w) ==
    \/ AssocCreateLockRouteTable(w)
    \/ AssocCreateLockVnet(w)
    \/ AssocCreateGet(w)
    \/ AssocCreatePut(w)
    \/ AssocCreateConfirm(w)
    \/ AssocRead(w)

resourceArmSubnetRouteTableAssociationDelete(w) ==
    \/ AssocDeleteGet(w)
    \/ AssocDeleteLockRouteTable(w)
    \/ AssocDeleteLockVnet(w)
    \/ AssocDeleteReGet(w)
    \/ AssocDeletePut(w)

InitLock ==
    /\ PurgeInitFrozen /\ RestInitFrozen
    /\ locked = {}
    /\ pc = [w \in Workers |-> "idle"] /\ op = [w \in Workers |-> NoOp]
    /\ defers = [w \in Workers |-> <<>>] /\ local = [w \in Workers |-> NoBody]
    /\ rid = [w \in Workers |-> NoId] /\ res = [w \in Workers |-> "none"]
    /\ subnets \in [SubnetNames -> SubnetBodies \cup {Absent}]
    /\ nics = <<>> /\ opsDone = [w \in Workers |-> 0]

LockNext ==
    \E w \in Workers :
        \/ BeginSubnetOp(w)
        \/ resourceArmSubnetCreate(w)
        \/ resourceArmSubnetDelete(w)
        \/ resourceArmSubnetRouteTableAssociationCreate(w)
        \/ resourceArmSubnetRouteTableAssociationDelete(w)
        \/ RunDeferred(w)
        \/ Finish(w)

SpecLock == InitLock /\ [][LockNext]_vars

(***************************************************************************)
(* Network interface <-> backend address pool associations.                *)
(***************************************************************************)

NicNames == {"nic1"}
IpConfigNames == {"ipconfig1", "ipconfig2"}
Pools == {"pool1", "pool2"}

\* The names CreateOrUpdate and Get of the network interfaces client are called with.
RemoteNicNames == NicNames \cup IpConfigNames

\* A network interface's body: its IP configurations, each with the backend
\* address pools attached to it.
NicBodies ==
    [IpConfigNames -> SUBSET Pools] \cup [{"ipconfig1"} -> SUBSET Pools]

NicOps ==
    [kind : {"NicCreate", "NicDelete"}, nic : NicNames, ipc : IpConfigNames, pool : Pools]

BeginNicOp(w) ==
    /\ pc[w] = "idle"
    /\ opsDone[w] < MaxOps
    /\ \E o \in NicOps :
        /\ op' = [op EXCEPT ![w] = o]
        /\ rid' = [rid EXCEPT ![w] =
                     IF o.kind = "NicDelete" THEN <<o.nic, o.ipc, o.pool>> ELSE NoId]
        /\ pc' = [pc EXCEPT ![w] = o.kind]
    /\ UNCHANGED <<locked, defers, local, res, subnets, nics, opsDone, purgeVars, restVars>>

\* ---- resourceNetworkInterfaceBackendAddressPoolAssociationCreate ----

\* azureStackLockByName(ipConfigurationName, networkInterfaceResourceName)
NicCreateLock(w) ==
    /\ pc[w] = "NicCreate"
    /\ LockAndDefer(w, LockKey(op[w].ipc, networkInterfaceResourceName))
    /\ Goto(w, "NicCreate:get")
    /\ UNCHANGED <<op, local, rid, res, subnets, nics, opsDone, purgeVars, restVars>>

\* Get, FindNetworkInterfaceIPConfiguration, the already-attached check and the
\* new list of pools
NicCreateGet(w) ==
    /\ pc[w] = "NicCreate:get"
    /\ \E out \in CallOutcomes :
        LET body == nics[op[w].nic] IN
        IF out = "err" \/ body = Absent
        THEN ReturnWith(w, "err") /\ UNCHANGED local
        ELSE IF op[w].ipc \notin DOMAIN body
        THEN ReturnWith(w, "err") /\ UNCHANGED local
        ELSE IF op[w].pool \in body[op[w].ipc]
        THEN ReturnWith(w, "err") /\ UNCHANGED local
        ELSE /\ local' = [local EXCEPT ![w] =
                            [body EXCEPT ![op[w].ipc] = @ \cup {op[w].pool}]]
             /\ Goto(w, "NicCreate:put") /\ UNCHANGED res
    /\ UNCHANGED <<locked, op, defers, rid, subnets, nics, opsDone, purgeVars, restVars>>

\* client.CreateOrUpdate(ctx, resourceGroup, networkInterfaceName, read); d.SetId(resourceId)
NicCreatePut(w) ==
    /\ pc[w] = "NicCreate:put"
    /\ \E out \in CallOutcomes :
        IF out = "err"
        THEN ReturnWith(w, "err") /\ UNCHANGED <<nics, rid>>
        ELSE /\ nics' = [nics EXCEPT ![op[w].nic] = local[w]]
             /\ rid' = [rid EXCEPT ![w] = <<op[w].nic, op[w].ipc, op[w].pool>>]
             /\ Goto(w, "NicRead") /\ UNCHANGED res
    /\ UNCHANGED <<locked, op, defers, local, subnets, opsDone, purgeVars, restVars>>

\* resourceNetworkInterfaceBackendAddressPoolAssociationRead, called at the end of Create
NicRead(w) ==
    /\ pc[w] = "NicRead"
    /\ \E out \in CallOutcomes :
        LET body == nics[op[w].nic] IN
        IF out = "err"
        THEN ReturnWith(w, "err") /\ UNCHANGED rid
        ELSE IF body = Absent
        THEN rid' = [rid EXCEPT ![w] = NoId] /\ ReturnWith(w, "ok")
        ELSE IF op[w].ipc \notin DOMAIN body
        THEN rid' = [rid EXCEPT ![w] = NoId] /\ ReturnWith(w, "ok")
        ELSE IF op[w].pool \notin body[op[w].ipc]
        THEN rid' = [rid EXCEPT ![w] = NoId] /\ ReturnWith(w, "ok")
        ELSE ReturnWith(w, "ok") /\ UNCHANGED rid
    /\ UNCHANGED <<locked, op, defers, local, subnets, nics, opsDone, purgeVars, restVars>>

\* ---- resourceNetworkInterfaceBackendAddressPoolAssociationDelete ----

\* azureStackLockByName(ipConfigurationName, networkInterfaceResourceName)
NicDeleteLock(w) ==
    /\ pc[w] = "NicDelete"
    /\ LockAndDefer(w, LockKey(op[w].ipc, networkInterfaceResourceName))
    /\ Goto(w, "NicDelete:get")
    /\ UNCHANGED <<op, local, rid, res, subnets, nics, opsDone, purgeVars, restVars>>

NicDeleteGetClears(w) ==
    /\ pc[w] = "NicDelete:get"
    /\ \E out \in CallOutcomes :
        LET body == nics[op[w].nic] IN
        IF out = "err" \/ body = Absent
        THEN ReturnWith(w, "err") /\ UNCHANGED local
        ELSE IF op[w].ipc \notin DOMAIN body
        THEN ReturnWith(w, "err") /\ UNCHANGED local
        ELSE /\ local' = [local EXCEPT ![w] = [body EXCEPT ![op[w].ipc] = {}]]
             /\ Goto(w, "NicDelete:put") /\ UNCHANGED res
    /\ UNCHANGED <<locked, op, defers, rid, subnets, nics, opsDone, purgeVars, restVars>>

\* Get, FindNetworkInterfaceIPConfiguration and the list of the pools that stay
NicDeleteGet(w) ==
    /\ pc[w] = "NicDelete:get"
    /\ \E out \in CallOutcomes :
        LET body == nics[op[w].nic] IN
        IF out = "err" \/ body = Absent
        THEN ReturnWith(w, "err") /\ UNCHANGED local
        ELSE IF op[w].ipc \notin DOMAIN body
        THEN ReturnWith(w, "err") /\ UNCHANGED local
        ELSE /\ local' = [local EXCEPT ![w] =
                            [body EXCEPT ![op[w].ipc] = @ \ {op[w].pool}]]
             /\ Goto(w, "NicDelete:put") /\ UNCHANGED res
    /\ UNCHANGED <<locked, op, defers, rid, subnets, nics, opsDone, purgeVars, restVars>>

\* The name the Delete passes to CreateOrUpdate: ipConfigurationName.
NicDeletePutName(o) == o.ipc

\* client.CreateOrUpdate(ctx, resourceGroup, ipConfigurationName, read)
NicDeletePut(w) ==
    /\ pc[w] = "NicDelete:put"
    /\ \E out \in CallOutcomes :
        IF out = "err"
        THEN ReturnWith(w, "err") /\ UNCHANGED nics
        ELSE /\ nics' = [nics EXCEPT ![NicDeletePutName(op[w])] = local[w]]
             /\ ReturnWith(w, "ok")
    /\ UNCHANGED <<locked, op, defers, local, rid, subnets, opsDone, purgeVars, restVars>>

resourceNetworkInterfaceBackendAddressPoolAssociationCreate(w) ==
    \/ NicCreateLock(w)
    \/ NicCreateGet(w)
    \/ NicCreatePut(w)
    \/ NicRead(w)

resourceNetworkInterfaceBackendAddressPoolAssociationDelete(w) ==
    \/ NicDeleteLock(w)
    \/ NicDeleteGet(w)
    \/ NicDeletePut(w)

InitNic ==
    /\ PurgeInitFrozen /\ RestInitFrozen
    /\ locked = {}
    /\ pc = [w \in Workers |-> "idle"] /\ op = [w \in Workers |-> NoOp]
    /\ defers = [w \in Workers |-> <<>>] /\ local = [w \in Workers |-> NoBody]
    /\ rid = [w \in Workers |-> NoId] /\ res = [w \in Workers |-> "none"]
    /\ subnets = <<>>
    /\ \E body \in NicBodies \cup {Absent} :
          nics = [n \in RemoteNicNames |-> IF n \in NicNames THEN body ELSE Absent]
    /\ opsDone = [w \in Workers |-> 0]

NicNext ==
    \E w \in Workers :
        \/ BeginNicOp(w)
        \/ resourceNetworkInterfaceBackendAddressPoolAssociationCreate(w)
        \/ resourceNetworkInterfaceBackendAddressPoolAssociationDelete(w)
        \/ RunDeferred(w)
        \/ Finish(w)

SpecNic == InitNic /\ [][NicNext]_vars

(***************************************************************************)
(* Properties of the named locks.                                          *)
(***************************************************************************)

\* Worker w is between a completed Lock of key and the matching deferred Unlock.
HoldsIn(d, w, key) == \E i \in 1..Len(d[w]) : d[w][i] = key

Holds(w, key) == HoldsIn(defers, w, key)

HeldKeys == UNION {{defers[w][i] : i \in 1..Len(defers[w])} : w \in Workers}

\* C1: for every (name, category) at most one caller is between a completed
\* azureStackLockByName and its matching azureStackUnlockByName, and a caller
\* completes a Lock only when no other caller is in between for that pair.
C1_LockExclusive ==
    /\ [](\A key \in HeldKeys : Cardinality({w \in Workers : Holds(w, key)}) <= 1)
    /\ [][ \A w \in Workers :
             (Len(defers'[w]) > Len(defers[w])) =>
                 \A v \in Workers \ {w} : ~Holds(v, Head(defers'[w])) ]_vars

\* One worker holds the virtual network's lock while the other is at its own
\* Lock call for the same virtual network.
C1_Witness ==
    \E w, v \in Workers :
        /\ w # v
        /\ Holds(w, LockKey(VnetName, virtualNetworkResourceName))
        /\ pc[v] \in {"SubnetCreate", "SubnetDelete:vnet", "AssocCreate:vnet", "AssocDelete:vnet"}

\* The lock a worker is about to take at its position, if any.
Wants(w) ==
    CASE pc[w] \in {"SubnetCreate", "SubnetDelete:vnet", "AssocCreate:vnet", "AssocDelete:vnet"}
            -> {LockKey(VnetName, virtualNetworkResourceName)}
      [] pc[w] \in {"SubnetCreate:nsg", "SubnetDelete"} /\ op[w].nsg # None
            -> {LockKey(op[w].nsg, networkSecurityGroupResourceName)}
      [] pc[w] \in {"SubnetCreate:rt", "SubnetDelete:rt", "AssocCreate"} /\ op[w].rt # None
            -> {LockKey(op[w].rt, routeTableResourceName)}
      [] pc[w] = "AssocDelete:rt" -> {LockKey(local[w].rt, routeTableResourceName)}
      [] pc[w] = "SubnetDelete:subnet" -> {LockKey(op[w].subnet, subnetResourceName)}
      [] pc[w] \in {"NicCreate", "NicDelete"}
            -> {LockKey(op[w].ipc, networkInterfaceResourceName)}
      [] OTHER -> {}

WaitsFor(w, v) == w # v /\ \E key \in Wants(w) : Holds(v, key)

\* C3 as stated: no set of concurrently running subnet and subnet <-> route
\* table association operations is ever such that each waits for a lock held
\* by another of the set.
C3_NoDeadlock ==
    ~ \E S \in SUBSET Workers :
        S # {} /\ \A w \in S : \E v \in S : WaitsFor(w, v)

\* Two backend address pool association operations are between their Get and
\* their CreateOrUpdate.
InNicCycle(w) == pc[w] \in {"NicCreate:put", "NicDelete:put"}

\* C2 as stated: the Get -> modify -> CreateOrUpdate cycles of two operations
\* on the same network interface never interleave.
C2_NicCyclesSerialized ==
    \A w, v \in Workers :
        (w # v /\ InNicCycle(w) /\ InNicCycle(v)) => op[w].nic # op[v].nic

(***************************************************************************)
(* Resource functions against one remote object.                           *)
(***************************************************************************)

MaxCrudOps == 1

\* The identifier built on the client from the configuration inputs, and the
\* identifiers the API may answer for the same object (it may normalize casing).
ClientId == <<"name1">>
ServerIds == {<<"name1">>, <<"NAME1">>}

\* The fields of the configuration and of the prior state that
\* resourceArmKeyVaultUpdate checks: purge_protection_enabled and
\* soft_delete_retention_days.
VaultFields == [purge : BOOLEAN, retention : {7, 30}]

\* The remote object: its identifier, who wrote it last, and the key vault
\* properties EnablePurgeProtection and SoftDeleteRetentionInDays (0 for nil).
RemoteBodies == [id : ServerIds, by : {"tf", "other"}, purge : BOOLEAN, retention : {0, 7, 30}]

CrudFunctions ==
    [kind : {"PublicIp", "RouteTable"}, op : {"Create", "Read", "Delete"}]
    \cup [kind : {"VnetPeering"}, op : {"Delete"}]
    \cup [kind : {"KeyVault"}, op : {"Create", "Read", "Update", "Delete"}]
    \cup [kind : {"Blob"}, op : {"Create"}]

\* The HTTP statuses a remote call may answer with: the responder of the
\* client turns every status outside its accepted ones into err != nil.
GetStatuses == IF cremote = Absent THEN {404, 500} ELSE {200, 500}
PutStatuses == {200, 500}
DeleteStatuses == IF cremote = Absent THEN {204, 404, 500} ELSE {200, 500}

IsErr(status) == status \notin {200, 204}

\* response.WasNotFound / utils.ResponseWasNotFound
WasNotFound(status) == status = 404

Call(name, status) == ccalls' = Append(ccalls, [name |-> name, status |-> status])

CGoto(label) == cpc' = label /\ cres' = "none"

CReturn(r) == cpc' = "return" /\ cres' = r

\* d.HasChange(field)
HasChange(field) == prior[field] # desired[field]

\* The framework calls a resource function: Create with no identifier, the
\* others with the identifier persisted by an earlier Create or import.
BeginCrud ==
    /\ cpc = "idle"
    /\ cdone < MaxCrudOps
    /\ \E f \in CrudFunctions :
        /\ ckind' = f.kind /\ cop' = f.op
        /\ cpc' = f.kind \o ":" \o f.op
        /\ IF f.op = "Create" THEN cid' = NoId ELSE cid' \in ServerIds \cup {ClientId}
        /\ IF f.kind = "KeyVault" /\ f.op \in {"Create", "Update"}
           THEN desired' \in VaultFields
           ELSE desired' = NoBody
        /\ IF f.kind = "KeyVault" /\ f.op = "Update"
           THEN prior' \in VaultFields
           ELSE prior' = NoBody
    /\ cstart' = cremote /\ cgot' = NoId /\ ccalls' = <<>> /\ cres' = "none"
    /\ UNCHANGED <<cremote, cdone, purgeVars, lockVars, cacheVars, codecVars, auxVars>>

\* The function has returned to the framework.
FinishCrud ==
    /\ cpc = "return"
    /\ cpc' = "idle" /\ cdone' = cdone + 1
    /\ UNCHANGED <<ckind, cop, cid, cres, ccalls, cremote, cstart, cgot, desired, prior,
                   purgeVars, lockVars, cacheVars, codecVars, auxVars>>

\* Between two functions the remote object is created, changed or deleted
\* out of band.
OutOfBandChange ==
    /\ cpc = "idle"
    /\ cdone < MaxCrudOps
    /\ cremote' \in (RemoteBodies \cup {Absent}) \ {cremote}
    /\ cremote # Absent /\ cremote' # Absent => cremote'.id = cremote.id
    /\ cremote' # Absent /\ cremote'.by = "tf" => cremote # Absent /\ cremote.by = "tf"
    /\ UNCHANGED <<ckind, cop, cpc, cid, cres, ccalls, cstart, cgot, desired, prior, cdone,
                   purgeVars, lockVars, cacheVars, codecVars, auxVars>>

\* What CreateOrUpdate leaves at the remote end: a new object gets the
\* identifier the API chooses, an existing one is overwritten in place.
Written(sid, purge, retention) ==
    [id |-> IF cremote = Absent THEN sid ELSE cremote.id,
     by |-> "tf", purge |-> purge, retention |-> retention]

\* ---- CreateOrUpdate, WaitForCompletionRef, Get, SetId(*read.ID), Read ----
\*      (resourceArmPublicIpCreateUpdate, resourceArmRouteTableCreateUpdate)

\* client.CreateOrUpdate and future.WaitForCompletionRef; before them the
\* public IP's sku / zones / allocation method checks may return an error.
CreateUpdatePut(k) ==
    /\ cpc = k \o ":Create"
    /\ \/ /\ k = "PublicIp"
          /\ CReturn("err")
          /\ UNCHANGED <<ccalls, cremote>>
       \/ \E st \in PutStatuses, sid \in ServerIds :
            /\ Call("CreateOrUpdate", st)
            /\ IF IsErr(st)
               THEN CReturn("err") /\ UNCHANGED cremote
               ELSE cremote' = Written(sid, FALSE, 0) /\ CGoto(k \o ":Create:get")
    /\ UNCHANGED <<ckind, cop, cid, cstart, cgot, desired, prior, cdone,
                   purgeVars, lockVars, cacheVars, codecVars, auxVars>>

\* read, err := client.Get(...); d.SetId(*read.ID)
CreateUpdateGet(k) ==
    /\ cpc = k \o ":Create:get"
    /\ \E st \in GetStatuses :
        /\ Call("Get", st)
        /\ IF IsErr(st)
           THEN CReturn("err") /\ UNCHANGED <<cid, cgot>>
           ELSE cid' = cremote.id /\ cgot' = cremote.id /\ CGoto(k \o ":Read")
    /\ UNCHANGED <<ckind, cop, cremote, cstart, desired, prior, cdone,
                   purgeVars, lockVars, cacheVars, codecVars, auxVars>>

\* A Read whose not-found answer is returned as an error, the identifier kept.
ResourceReadKeepsId(k) ==
    /\ cpc = k \o ":Read"
    /\ \E st \in GetStatuses :
        /\ Call("Get", st)
        /\ IF IsErr(st) THEN CReturn("err") ELSE CReturn("ok")
    /\ UNCHANGED <<ckind, cop, cid, cremote, cstart, cgot, desired, prior, cdone,
                   purgeVars, lockVars, cacheVars, codecVars, auxVars>>

\* resourceArmPublicIpRead, resourceArmRouteTableRead
ResourceRead(k) ==
    /\ cpc = k \o ":Read"
    /\ \E st \in GetStatuses :
        /\ Call("Get", st)
        /\ IF IsErr(st)
           THEN IF WasNotFound(st)
                THEN cid' = NoId /\ CReturn("ok")
                ELSE CReturn("err") /\ UNCHANGED cid
           ELSE CReturn("ok") /\ UNCHANGED cid
    /\ UNCHANGED <<ckind, cop, cremote, cstart, cgot, desired, prior, cdone,
                   purgeVars, lockVars, cacheVars, codecVars, auxVars>>

\* client.Delete and future.WaitForCompletionRef, every error of Delete returned
\* (resourceArmPublicIpDelete, resourceArmVirtualNetworkPeeringDelete)
DeleteStrict(k) ==
    /\ cpc = k \o ":Delete"
    /\ \E st \in DeleteStatuses, wait \in {"ok", "err"} :
        /\ Call("Delete", st)
        /\ IF IsErr(st) \/ wait = "err"
           THEN CReturn("err") /\ UNCHANGED cremote
           ELSE cremote' = Absent /\ CReturn("ok")
    /\ UNCHANGED <<ckind, cop, cid, cstart, cgot, desired, prior, cdone,
                   purgeVars, lockVars, cacheVars, codecVars, auxVars>>

\* client.Delete whose not-found answer is passed over, then
\* future.WaitForCompletionRef (resourceArmRouteTableDelete)
DeleteTolerant(k) ==
    /\ cpc = k \o ":Delete"
    /\ \E st \in DeleteStatuses, wait \in {"ok", "err"} :
        /\ Call("Delete", st)
        /\ IF (IsErr(st) /\ ~WasNotFound(st)) \/ wait = "err"
           THEN CReturn("err") /\ UNCHANGED cremote
           ELSE cremote' = Absent /\ CReturn("ok")
    /\ UNCHANGED <<ckind, cop, cid, cstart, cgot, desired, prior, cdone,
                   purgeVars, lockVars, cacheVars, codecVars, auxVars>>

resourceArmPublicIpCreateUpdate == CreateUpdatePut("PublicIp") \/ CreateUpdateGet("PublicIp")

resourceArmPublicIpRead == ResourceRead("PublicIp")

resourceArmPublicIpDelete == DeleteStrict("PublicIp")

resourceArmRouteTableCreateUpdate == CreateUpdatePut("RouteTable") \/ CreateUpdateGet("RouteTable")

resourceArmRouteTableRead == ResourceRead("RouteTable")

resourceArmRouteTableDelete == DeleteTolerant("RouteTable")

resourceArmVirtualNetworkPeeringDelete == DeleteStrict("VnetPeering")

\* ---- resourceArmKeyVaultCreate ----

\* existing, err := client.Get(...): an answer other than not-found ends the
\* Create, with the error or with ImportAsExistsError.
KeyVaultCreateProbe ==
    /\ cpc = "KeyVault:Create"
    /\ \E st \in GetStatuses :
        /\ Call("Get", st)
        /\ IF WasNotFound(st) THEN CGoto("KeyVault:Create:deleted") ELSE CReturn("err")
    /\ UNCHANGED <<ckind, cop, cid, cremote, cstart, cgot, desired, prior, cdone,
                   purgeVars, lockVars, cacheVars, codecVars, auxVars>>

\* client.GetDeleted: an error other than forbidden / not-found ends the
\* Create; a soft-deleted vault of that name does not.
KeyVaultCreateGetDeleted ==
    /\ cpc = "KeyVault:Create:deleted"
    /\ \E st \in {200, 403, 404, 500} :
        /\ Call("GetDeleted", st)
        /\ IF IsErr(st) /\ ~WasNotFound(st) /\ st # 403
           THEN CReturn("err")
           ELSE CGoto("KeyVault:Create:put")
    /\ UNCHANGED <<ckind, cop, cid, cremote, cstart, cgot, desired, prior, cdone,
                   purgeVars, lockVars, cacheVars, codecVars, auxVars>>

\* client.CreateOrUpdate(ctx, id.ResourceGroup, id.Name, parameters)
KeyVaultCreatePut ==
    /\ cpc = "KeyVault:Create:put"
    /\ \E st \in PutStatuses, sid \in ServerIds :
        /\ Call("CreateOrUpdate", st)
        /\ IF IsErr(st)
           THEN CReturn("err") /\ UNCHANGED cremote
           ELSE /\ cremote' = Written(sid, desired.purge, desired.retention)
                /\ CGoto("KeyVault:Create:get")
    /\ UNCHANGED <<ckind, cop, cid, cstart, cgot, desired, prior, cdone,
                   purgeVars, lockVars, cacheVars, codecVars, auxVars>>

\* read, err := client.Get(...); d.SetId(id.ID()) with the id built from the
\* subscription, resource group and name of the configuration.
KeyVaultCreateGet ==
    /\ cpc = "KeyVault:Create:get"
    /\ \E st \in GetStatuses :
        /\ Call("Get", st)
        /\ IF IsErr(st)
           THEN CReturn("err") /\ UNCHANGED <<cid, cgot>>
           ELSE cid' = ClientId /\ cgot' = cremote.id /\ CGoto("KeyVault:Create:wait")
    /\ UNCHANGED <<ckind, cop, cremote, cstart, desired, prior, cdone,
                   purgeVars, lockVars, cacheVars, codecVars, auxVars>>

\* stateConf.WaitForState() until the vault's DNS name resolves
KeyVaultCreateWait ==
    /\ cpc = "KeyVault:Create:wait"
    /\ \/ CGoto("KeyVault:Read")
       \/ CReturn("err")
    /\ UNCHANGED <<ckind, cop, cid, ccalls, cremote, cstart, cgot, desired, prior, cdone,
                   purgeVars, lockVars, cacheVars, codecVars, auxVars>>

resourceArmKeyVaultCreate ==
    \/ KeyVaultCreateProbe
    \/ KeyVaultCreateGetDeleted
    \/ KeyVaultCreatePut
    \/ KeyVaultCreateGet
    \/ KeyVaultCreateWait

\* ---- resourceArmKeyVaultUpdate ----

\* existing, err := client.Get(...): every error is returned; then the checks
\* of purge_protection_enabled and soft_delete_retention_days, each inside
\* its d.HasChange.
KeyVaultUpdateGet ==
    /\ cpc = "KeyVault:Update"
    /\ \E st \in GetStatuses :
        /\ Call("Get", st)
        /\ IF IsErr(st)
           THEN CReturn("err")
           ELSE IF \/ HasChange("purge") /\ cremote.purge /\ ~desired.purge
                   \/ HasChange("retention") /\ cremote.retention # 0
                THEN CReturn("err")
                ELSE CGoto("KeyVault:Update:patch")
    /\ UNCHANGED <<ckind, cop, cid, cremote, cstart, cgot, desired, prior, cdone,
                   purgeVars, lockVars, cacheVars, codecVars, auxVars>>

\* client.Update(ctx, id.ResourceGroup, id.Name, update): the patch carries
\* the fields whose d.HasChange was true.
KeyVaultUpdatePatch ==
    /\ cpc = "KeyVault:Update:patch"
    /\ \E st \in PutStatuses :
        /\ Call("Update", st)
        /\ IF IsErr(st)
           THEN CReturn("err") /\ UNCHANGED cremote
           ELSE /\ cremote' = [cremote EXCEPT
                       !.by = "tf",
                       !.purge = IF HasChange("purge") THEN desired.purge ELSE @,
                       !.retention = IF HasChange("retention") THEN desired.retention ELSE @]
                /\ CGoto("KeyVault:Read")
    /\ UNCHANGED <<ckind, cop, cid, cstart, cgot, desired, prior, cdone,
                   purgeVars, lockVars, cacheVars, codecVars, auxVars>>

resourceArmKeyVaultUpdate == KeyVaultUpdateGet \/ KeyVaultUpdatePatch

\* ---- resourceArmKeyVaultRead ----

\* client.Get, then GetCertificateContacts whose errors other than forbidden
\* and not-found are returned.
resourceArmKeyVaultRead ==
    /\ cpc = "KeyVault:Read"
    /\ \E st \in GetStatuses, contacts \in {"ok", "err"} :
        /\ Call("Get", st)
        /\ IF IsErr(st)
           THEN IF WasNotFound(st)
                THEN cid' = NoId /\ CReturn("ok")
                ELSE CReturn("err") /\ UNCHANGED cid
           ELSE CReturn(contacts) /\ UNCHANGED cid
    /\ UNCHANGED <<ckind, cop, cremote, cstart, cgot, desired, prior, cdone,
                   purgeVars, lockVars, cacheVars, codecVars, auxVars>>

\* ---- the Get and the Delete of the key vault's Delete function, without its purge ----

CrudVaultDeleteGet ==
    /\ cpc = "KeyVault:Delete"
    /\ \E st \in GetStatuses :
        /\ Call("Get", st)
        /\ IF IsErr(st)
           THEN IF WasNotFound(st) THEN CReturn("ok") ELSE CReturn("err")
           ELSE CGoto("KeyVault:Delete:delete")
    /\ UNCHANGED <<ckind, cop, cid, cremote, cstart, cgot, desired, prior, cdone,
                   purgeVars, lockVars, cacheVars, codecVars, auxVars>>

CrudVaultDeleteDelete ==
    /\ cpc = "KeyVault:Delete:delete"
    /\ \E st \in DeleteStatuses :
        /\ Call("Delete", st)
        /\ IF IsErr(st) /\ ~WasNotFound(st)
           THEN CReturn("err") /\ UNCHANGED cremote
           ELSE cremote' = Absent /\ CReturn("ok")
    /\ UNCHANGED <<ckind, cop, cid, cstart, cgot, desired, prior, cdone,
                   purgeVars, lockVars, cacheVars, codecVars, auxVars>>

\* ---- storageBlobCreate ----

\* id := blobsClient.GetResourceID(...); d.IsNewResource(): GetProperties
BlobCreateProbe ==
    /\ cpc = "Blob:Create"
    /\ \E st \in GetStatuses :
        /\ Call("GetProperties", st)
        /\ IF WasNotFound(st) THEN CGoto("Blob:Create:put") ELSE CReturn("err")
    /\ UNCHANGED <<ckind, cop, cid, cremote, cstart, cgot, desired, prior, cdone,
                   purgeVars, lockVars, cacheVars, codecVars, auxVars>>

\* blobInput.Create(ctx); d.SetId(id)
BlobCreatePut ==
    /\ cpc = "Blob:Create:put"
    /\ \E st \in PutStatuses, sid \in ServerIds :
        /\ Call("Create", st)
        /\ IF IsErr(st)
           THEN CReturn("err") /\ UNCHANGED <<cremote, cid>>
           ELSE /\ cremote' = Written(sid, FALSE, 0)
                /\ cid' = ClientId
                /\ CGoto("Blob:Read")
    /\ UNCHANGED <<ckind, cop, cstart, cgot, desired, prior, cdone,
                   purgeVars, lockVars, cacheVars, codecVars, auxVars>>

storageBlobCreate == BlobCreateProbe \/ BlobCreatePut

\* storageBlobUpdate with nothing changed, then storageBlobRead
storageBlobRead == ResourceRead("Blob")

\* ---- role definitions: the persisted id is "<resource id>|<scope>" ----

\* A persisted role definition id as its parts: well formed, without "|",
\* with a scope that is neither a subscription nor a management group, and
\* with a resource id that holds no "roleDefinitions/".
RoleDefinitionIds ==
    {<<"/providers/", "roleDefinitions/", "r1", "|", "/subscriptions/", "s1">>,
     <<"/providers/", "roleDefinitions/", "r1">>,
     <<"/providers/", "roleDefinitions/", "r1", "|", "s1">>,
     <<"/providers/", "r1", "|", "/subscriptions/", "s1">>}

\* parseRoleDefinitionId: strings.Split(input, "|") must give two parts, the
\* scope must have one of the two prefixes; idParts[1] of
\* strings.Split(parts[0], "roleDefinitions/") is indexed after the check
\* len(idParts) < 1, which never holds, so a resource id without
\* "roleDefinitions/" makes the index panic.
parseRoleDefinitionId(s) ==
    LET bars == {i \in 1..Len(s) : s[i] = "|"}
        b == CHOOSE i \in bars : TRUE
        resourceID == SubSeq(s, 1, b - 1)
        scope == SubSeq(s, b + 1, Len(s))
        marks == {i \in 1..Len(resourceID) : resourceID[i] = "roleDefinitions/"}
        m == CHOOSE i \in marks : \A j \in marks : i <= j
        after == {j \in marks : j > m}
        e == IF after = {} THEN Len(resourceID) ELSE (CHOOSE j \in after : \A l \in after : j <= l) - 1
    IN IF Cardinality(bars) # 1 THEN [err |-> TRUE]
       ELSE IF scope = <<>> \/ scope[1] \notin {"/subscriptions/", "/providers/Microsoft.Management/managementGroups/"}
            THEN [err |-> TRUE]
       ELSE IF marks = {} THEN [panic |-> TRUE]
       ELSE [err |-> FALSE, ResourceID |-> resourceID, Scope |-> scope,
             RoleID |-> SubSeq(resourceID, m + 1, e)]

\* The framework calls Read or Delete of a role definition with its persisted id.
BeginRoleDefinition ==
    /\ cpc = "idle"
    /\ cdone < MaxCrudOps
    /\ ckind' = "RoleDefinition"
    /\ \E f \in {"Read", "Delete"} : cop' = f /\ cpc' = "RoleDefinition:" \o f
    /\ cid' \in RoleDefinitionIds
    /\ cstart' = cremote /\ cgot' = NoId /\ ccalls' = <<>> /\ cres' = "none"
    /\ desired' = NoBody /\ prior' = NoBody
    /\ UNCHANGED <<cremote, cdone, purgeVars, lockVars, cacheVars, codecVars, auxVars>>

\* roleDefinitionId, err := parseRoleDefinitionId(d.Id()); if err != nil
\* { return err }; then client.Get
resourceArmRoleDefinitionRead ==
    /\ cpc = "RoleDefinition:Read"
    /\ LET id == parseRoleDefinitionId(cid)
       IN IF id = [panic |-> TRUE]
          THEN CReturn("panic") /\ UNCHANGED <<cid, ccalls>>
          ELSE IF id.err
          THEN CReturn("err") /\ UNCHANGED <<cid, ccalls>>
          ELSE \E st \in GetStatuses :
                /\ Call("Get", st)
                /\ IF IsErr(st)
                   THEN IF WasNotFound(st)
                        THEN cid' = NoId /\ CReturn("ok")
                        ELSE CReturn("err") /\ UNCHANGED cid
                   ELSE CReturn("ok") /\ UNCHANGED cid
    /\ UNCHANGED <<ckind, cop, cremote, cstart, cgot, desired, prior, cdone,
                   purgeVars, lockVars, cacheVars, codecVars, auxVars>>

\* id, _ := parseRoleDefinitionId(d.Id()); client.Delete(ctx, id.Scope,
\* id.RoleID): after a parse error id is nil and id.Scope panics; then
\* stateConf.WaitForState().
resourceArmRoleDefinitionDelete ==
    /\ cpc = "RoleDefinition:Delete"
    /\ LET id == parseRoleDefinitionId(cid)
       IN IF id = [panic |-> TRUE] \/ id.err
          THEN CReturn("panic") /\ UNCHANGED <<cremote, ccalls>>
          ELSE \E st \in DeleteStatuses, wait \in {"ok", "err"} :
                /\ Call("Delete", st)
                /\ IF IsErr(st) /\ ~WasNotFound(st)
                   THEN CReturn("err") /\ UNCHANGED cremote
                   ELSE IF wait = "err"
                   THEN CReturn("err") /\ UNCHANGED cremote
                   ELSE cremote' = Absent /\ CReturn("ok")
    /\ UNCHANGED <<ckind, cop, cid, cstart, cgot, desired, prior, cdone,
                   purgeVars, lockVars, cacheVars, codecVars, auxVars>>

InitCrud ==
    /\ ckind = None /\ cop = None /\ cpc = "idle" /\ cid = NoId /\ cres = "none"
    /\ ccalls = <<>> /\ cremote = Absent /\ cstart = Absent /\ cgot = NoId
    /\ desired = NoBody /\ prior = NoBody /\ cdone = 0
    /\ PurgeInitFrozen /\ LockInitFrozen /\ CacheInitFrozen /\ CodecInitFrozen /\ AuxInitFrozen

CrudNext ==
    \/ BeginCrud
    \/ FinishCrud
    \/ OutOfBandChange
    \/ resourceArmPublicIpCreateUpdate
    \/ resourceArmPublicIpRead
    \/ resourceArmPublicIpDelete
    \/ resourceArmRouteTableCreateUpdate
    \/ resourceArmRouteTableRead
    \/ resourceArmRouteTableDelete
    \/ resourceArmVirtualNetworkPeeringDelete
    \/ resourceArmKeyVaultCreate
    \/ resourceArmKeyVaultUpdate
    \/ resourceArmKeyVaultRead
    \/ CrudVaultDeleteGet
    \/ CrudVaultDeleteDelete
    \/ storageBlobCreate
    \/ storageBlobRead
    \/ BeginRoleDefinition
    \/ resourceArmRoleDefinitionRead
    \/ resourceArmRoleDefinitionDelete

SpecCrud == InitCrud /\ [][CrudNext]_vars

\* The calls that change the remote object.
MutatingCalls == {"CreateOrUpdate", "Create", "Update", "Delete"}

NoMutatingCall == \A i \in 1..Len(ccalls) : ccalls[i].name \notin MutatingCalls

\* C11: every Create called with no prior identifier first probes the remote
\* object with a Get; when the probe finds the object, the Create returns an
\* error and never calls CreateOrUpdate.
C11_CreateProbesFirst ==
    cop = "Create" /\ ccalls # <<>> =>
        /\ ccalls[1].name \in {"Get", "GetProperties"}
        /\ ccalls[1].status = 200 => NoMutatingCall /\ cres # "ok"

\* C12: after a successful Create the persisted identifier is the one the
\* confirmatory Get returned, never one constructed on the client side.
C12_IdFromConfirmatoryGet ==
    cop = "Create" /\ cpc = "return" /\ cres = "ok" /\ cid # NoId => cid = cgot

\* C13: a Delete whose remote Delete call answers not-found returns success,
\* for every resource type.
C13_DeleteNotFoundIsSuccess ==
    /\ cop = "Delete" /\ cpc = "return"
    /\ ccalls # <<>>
    /\ ccalls[Len(ccalls)] = [name |-> "Delete", status |-> 404]
    => cres = "ok"

ReadLabels == {"PublicIp:Read", "RouteTable:Read", "KeyVault:Read", "Blob:Read"}

LastCall == ccalls[Len(ccalls)]

\* The step with which a Read returns.
ReadReturns ==
    cpc \in ReadLabels /\ cpc' = "return" =>
        /\ LastCall'.status = 404 => cid' = NoId /\ cres' = "ok"
        /\ LastCall'.status = 500 => cid' = cid /\ cres' = "err"

\* C14: a Read whose Get answers not-found clears the identifier and returns
\* no error; a Read whose Get fails in any other way returns the error and
\* leaves the identifier unchanged.
C14_ReadGone == [][ReadReturns]_vars

C14_Witness ==
    /\ cop = "Read" /\ cpc = "return" /\ cstart = Absent
    /\ LastCall = [name |-> "Get", status |-> 404]
    /\ cid = NoId /\ cres = "ok"

\* C15: when the Get at the start of an Update or a Delete answers not-found,
\* the function returns no error, and the Update has cleared the identifier.
C15_GoneAtStart ==
    /\ cop \in {"Update", "Delete"} /\ cpc = "return"
    /\ ccalls # <<>>
    /\ ccalls[1] = [name |-> "Get", status |-> 404]
    => cres = "ok" /\ (cop = "Update" => cid = NoId)

\* A field that cannot be changed once it is set differs between the
\* configuration and the remote vault as it was when the Update began.
ImmutableDrift ==
    \/ cstart.purge /\ ~desired.purge
    \/ cstart.retention # 0 /\ cstart.retention # desired.retention

\* C16: when an immutable field differs between the desired and the observed
\* state, the Update returns an error and makes no remote mutating call.
C16_ImmutableDriftRejected ==
    cop = "Update" /\ cstart # Absent /\ ImmutableDrift =>
        /\ NoMutatingCall
        /\ cpc = "return" => cres = "err"

(***************************************************************************)
(* The key vault cache: keyVaultsCache, keysmith and the map lock of        *)
(* per-vault mutexes, all package-level variables.                         *)
(***************************************************************************)

MaxCacheOps == 2

\* cacheKeyForKeyVault(name) of the vaults in use
CacheKeys == {"kv1", "kv2"}

CacheFunctions ==
    {"KeyVaultIDFromBaseUrl", "AddKeyVaultToCache", "PurgeKeyVaultCache",
     "BaseUriForKeyVault", "KeyVaultExists"}

\* A resource function calls one of the cache functions.
BeginCache(w) ==
    /\ kpc[w] = "idle"
    /\ kdone[w] < MaxCacheOps
    /\ \E f \in CacheFunctions, k \in CacheKeys :
        /\ kop' = [kop EXCEPT ![w] = [kind |-> f, key |-> k]]
        /\ kpc' = [kpc EXCEPT ![w] = IF f = "AddKeyVaultToCache" THEN "add" ELSE "keysmith"]
    /\ UNCHANGED <<keysmith, lock, held, keyVaultsCache, nextMutex, kdone,
                   purgeVars, lockVars, crudVars, codecVars, auxVars>>

FinishCache(w) ==
    /\ kpc[w] = "done"
    /\ kpc' = [kpc EXCEPT ![w] = "idle"]
    /\ kop' = [kop EXCEPT ![w] = NoOp]
    /\ kdone' = [kdone EXCEPT ![w] = @ + 1]
    /\ UNCHANGED <<keysmith, lock, held, keyVaultsCache, nextMutex,
                   purgeVars, lockVars, crudVars, codecVars, auxVars>>

\* Another worker is inside keysmith and about to store a new entry in the map lock.
RacingInsert(w) ==
    \E v \in Workers \ {w} : kpc[v] = "insert" /\ lock[kop[v].key] = 0

\* keysmith.Lock()
KeysmithLock(w, f) ==
    /\ kpc[w] = "keysmith" /\ kop[w].kind = f
    /\ keysmith = None
    /\ keysmith' = w
    /\ kpc' = [kpc EXCEPT ![w] = "insert"]
    /\ UNCHANGED <<kop, lock, held, keyVaultsCache, nextMutex, kdone,
                   purgeVars, lockVars, crudVars, codecVars, auxVars>>

\* if lock[cacheKey] == nil { lock[cacheKey] = &sync.RWMutex{} }; keysmith.Unlock()
InsertIfAbsent(w, f) ==
    /\ kpc[w] = "insert" /\ kop[w].kind = f
    /\ IF lock[kop[w].key] = 0
       THEN /\ lock' = [lock EXCEPT ![kop[w].key] = nextMutex]
            /\ nextMutex' = nextMutex + 1
       ELSE UNCHANGED <<lock, nextMutex>>
    /\ keysmith' = None
    /\ kpc' = [kpc EXCEPT ![w] = "lookup"]
    /\ UNCHANGED <<kop, held, keyVaultsCache, kdone,
                   purgeVars, lockVars, crudVars, codecVars, auxVars>>

\* The map read of lock[cacheKey].Lock(), made after keysmith.Unlock(): while
\* another worker stores into the map the Go runtime either lets the read
\* through or stops the process ("concurrent map read and map write").
LookupMutex(w, f) ==
    /\ kpc[w] = "lookup" /\ kop[w].kind = f
    /\ \/ kpc' = [kpc EXCEPT ![w] = "acquire"]
       \/ RacingInsert(w) /\ kpc' = [v \in Workers |-> "fatal"]
    /\ UNCHANGED <<kop, keysmith, lock, held, keyVaultsCache, nextMutex, kdone,
                   purgeVars, lockVars, crudVars, codecVars, auxVars>>

\* lock[cacheKey].Lock() on the mutex found
AcquireMutex(w, f) ==
    /\ kpc[w] = "acquire" /\ kop[w].kind = f
    /\ held[kop[w].key] = None
    /\ held' = [held EXCEPT ![kop[w].key] = w]
    /\ kpc' = [kpc EXCEPT ![w] = "body"]
    /\ UNCHANGED <<kop, keysmith, lock, keyVaultsCache, nextMutex, kdone,
                   purgeVars, lockVars, crudVars, codecVars, auxVars>>

LockCacheKey(w, f) ==
    \/ KeysmithLock(w, f)
    \/ InsertIfAbsent(w, f)
    \/ LookupMutex(w, f)
    \/ AcquireMutex(w, f)

\* if v, ok := keyVaultsCache[cacheKey]; ok { return }, else the remote
\* List / Get, whose hit is stored with AddKeyVaultToCache.
CacheLookup(w, f) ==
    /\ kpc[w] = "body" /\ kop[w].kind = f
    /\ IF kop[w].key \in keyVaultsCache
       THEN kpc' = [kpc EXCEPT ![w] = "release"]
       ELSE \E remote \in {"found", "missing", "err"} :
               kpc' = [kpc EXCEPT ![w] = IF remote = "found" THEN "add" ELSE "release"]
    /\ UNCHANGED <<kop, keysmith, lock, held, keyVaultsCache, nextMutex, kdone,
                   purgeVars, lockVars, crudVars, codecVars, auxVars>>

\* delete(keyVaultsCache, cacheKey)
PurgeDelete(w) ==
    /\ kpc[w] = "body" /\ kop[w].kind = "PurgeKeyVaultCache"
    /\ keyVaultsCache' = keyVaultsCache \ {kop[w].key}
    /\ kpc' = [kpc EXCEPT ![w] = "release"]
    /\ UNCHANGED <<kop, keysmith, lock, held, nextMutex, kdone,
                   purgeVars, lockVars, crudVars, codecVars, auxVars>>

\* c.keyVaultClient.Get, no access to the cache
BaseUriGet(w) ==
    /\ kpc[w] = "body" /\ kop[w].kind = "BaseUriForKeyVault"
    /\ kpc' = [kpc EXCEPT ![w] = "release"]
    /\ UNCHANGED <<kop, keysmith, lock, held, keyVaultsCache, nextMutex, kdone,
                   purgeVars, lockVars, crudVars, codecVars, auxVars>>

\* AddKeyVaultToCache without its keysmith.Lock()
AddNoLock(w, f) ==
    /\ kpc[w] = "add" /\ kop[w].kind = f
    /\ kpc' = [kpc EXCEPT ![w] = "addwrite"]
    /\ UNCHANGED <<kop, keysmith, lock, held, keyVaultsCache, nextMutex, kdone,
                   purgeVars, lockVars, crudVars, codecVars, auxVars>>

\* AddKeyVaultToCache: keysmith.Lock()
AddLock(w, f) ==
    /\ kpc[w] = "add" /\ kop[w].kind = f
    /\ keysmith = None
    /\ keysmith' = w
    /\ kpc' = [kpc EXCEPT ![w] = "addwrite"]
    /\ UNCHANGED <<kop, lock, held, keyVaultsCache, nextMutex, kdone,
                   purgeVars, lockVars, crudVars, codecVars, auxVars>>

\* AddKeyVaultToCache: keyVaultsCache[cacheKey] = keyVaultDetails{...}; keysmith.Unlock()
AddWrite(w, f) ==
    /\ kpc[w] = "addwrite" /\ kop[w].kind = f
    /\ keyVaultsCache' = keyVaultsCache \cup {kop[w].key}
    /\ keysmith' = IF keysmith = w THEN None ELSE keysmith
    /\ kpc' = [kpc EXCEPT ![w] = IF f = "AddKeyVaultToCache" THEN "done" ELSE "release"]
    /\ UNCHANGED <<kop, lock, held, nextMutex, kdone,
                   purgeVars, lockVars, crudVars, codecVars, auxVars>>

\* lock[cacheKey].Unlock(): deferred, its receiver read from the map right
\* after the Lock; in PurgeKeyVaultCache the map is read again here.
ReleaseMutex(w, f) ==
    /\ kpc[w] = "release" /\ kop[w].kind = f
    /\ \/ /\ held' = [held EXCEPT ![kop[w].key] = None]
          /\ kpc' = [kpc EXCEPT ![w] = "done"]
       \/ /\ f = "PurgeKeyVaultCache" /\ RacingInsert(w)
          /\ kpc' = [v \in Workers |-> "fatal"]
          /\ UNCHANGED held
    /\ UNCHANGED <<kop, keysmith, lock, keyVaultsCache, nextMutex, kdone,
                   purgeVars, lockVars, crudVars, codecVars, auxVars>>

KeyVaultIDFromBaseUrl(w) ==
    \/ LockCacheKey(w, "KeyVaultIDFromBaseUrl")
    \/ CacheLookup(w, "KeyVaultIDFromBaseUrl")
    \/ AddLock(w, "KeyVaultIDFromBaseUrl")
    \/ AddWrite(w, "KeyVaultIDFromBaseUrl")
    \/ ReleaseMutex(w, "KeyVaultIDFromBaseUrl")

AddKeyVaultToCache(w) ==
    \/ AddLock(w, "AddKeyVaultToCache")
    \/ AddWrite(w, "AddKeyVaultToCache")

PurgeKeyVaultCache(w) ==
    \/ LockCacheKey(w, "PurgeKeyVaultCache")
    \/ PurgeDelete(w)
    \/ ReleaseMutex(w, "PurgeKeyVaultCache")

BaseUriForKeyVault(w) ==
    \/ LockCacheKey(w, "BaseUriForKeyVault")
    \/ BaseUriGet(w)
    \/ ReleaseMutex(w, "BaseUriForKeyVault")

KeyVaultExists(w) ==
    \/ LockCacheKey(w, "KeyVaultExists")
    \/ CacheLookup(w, "KeyVaultExists")
    \/ AddLock(w, "KeyVaultExists")
    \/ AddWrite(w, "KeyVaultExists")
    \/ ReleaseMutex(w, "KeyVaultExists")

InitCache ==
    /\ kpc = [w \in Workers |-> "idle"] /\ kop = [w \in Workers |-> NoOp]
    /\ keysmith = None
    /\ lock = [k \in CacheKeys |-> 0]
    /\ held = [k \in CacheKeys |-> None]
    /\ keyVaultsCache = {}
    /\ nextMutex = 1
    /\ kdone = [w \in Workers |-> 0]
    /\ PurgeInitFrozen /\ LockInitFrozen /\ CrudInitFrozen /\ CodecInitFrozen /\ AuxInitFrozen

CacheNext ==
    \E w \in Workers :
        \/ BeginCache(w)
        \/ FinishCache(w)
        \/ KeyVaultIDFromBaseUrl(w)
        \/ AddKeyVaultToCache(w)
        \/ PurgeKeyVaultCache(w)
        \/ BaseUriForKeyVault(w)
        \/ KeyVaultExists(w)

SpecCache == InitCache /\ [][CacheNext]_vars

\* No worker is at its read of the map lock outside keysmith while another
\* worker is about to store an entry into it.
NoRacingLookup ==
    \A w \in Workers :
        \/ kpc[w] = "lookup"
        \/ kpc[w] = "release" /\ kop[w].kind = "PurgeKeyVaultCache"
        => ~RacingInsert(w)

\* An entry of the map lock, once stored, is neither removed nor replaced.
EntriesKept == \A k \in CacheKeys : lock[k] # 0 => lock'[k] = lock[k]

\* C17: the map of named locks is protected by its own lock: no worker reads
\* or writes the map while another worker inserts an entry, and entries, once
\* inserted, are never removed or replaced.
C17_RegistryGuarded == []NoRacingLookup /\ [][EntriesKept]_vars

\* C18 as stated: the map of named locks is the only process-global mutable
\* state; no resource operation writes any other package-level variable.
C18_OnlyRegistryShared == [][keyVaultsCache' = keyVaultsCache]_vars

\* The steps that change keyVaultsCache: the store of AddKeyVaultToCache made
\* inside keysmith, and the delete of PurgeKeyVaultCache made while holding
\* the vault's own mutex.
CacheWrittenUnderLock ==
    keyVaultsCache' # keyVaultsCache =>
        \E w \in Workers :
            \/ /\ kpc[w] = "addwrite" /\ keysmith = w
               /\ keyVaultsCache' = keyVaultsCache \cup {kop[w].key}
            \/ /\ kpc[w] = "body" /\ kop[w].kind = "PurgeKeyVaultCache"
               /\ held[kop[w].key] = w
               /\ keyVaultsCache' = keyVaultsCache \ {kop[w].key}

\* C18 amended: besides the map of named locks the workers share the
\* process-global map keyVaultsCache; it is written only by AddKeyVaultToCache
\* while holding keysmith and by PurgeKeyVaultCache while holding the mutex of
\* the vault.
C18_SharedStateIsRegistryAndCache == [][CacheWrittenUnderLock]_vars

C18_Witness ==
    /\ \E w \in Workers : kop[w] = [kind |-> "KeyVaultExists", key |-> "kv1"] /\ kpc[w] = "release"
    /\ \E w \in Workers : kop[w] = [kind |-> "PurgeKeyVaultCache", key |-> "kv2"] /\ kpc[w] = "release"
    /\ keyVaultsCache = {"kv1"}
    /\ lock["kv1"] # 0 /\ lock["kv2"] # 0

(***************************************************************************)
(* Resource identifiers: a string is a sequence of tokens, "/" or a word.  *)
(***************************************************************************)

\* The values a field of an identifier may hold: "a", "A", "a/b" and "".
FieldValues == {<<"a">>, <<"A">>, <<"a", "/", "b">>, <<>>}

\* The segment keys and each one's upper-cased spelling.
UpperKey ==
    [subscriptions |-> "SUBSCRIPTIONS", resourceGroups |-> "RESOURCEGROUPS",
     providers |-> "PROVIDERS", virtualNetworks |-> "VIRTUALNETWORKS",
     subnets |-> "SUBNETS", routeTables |-> "ROUTETABLES", vaults |-> "VAULTS"]

\* strings.EqualFold on segment keys
EqualFold(a, b) ==
    LET Fold(x) == IF \E k \in DOMAIN UpperKey : UpperKey[k] = x
                   THEN CHOOSE k \in DOMAIN UpperKey : UpperKey[k] = x
                   ELSE x
    IN Fold(a) = Fold(b)

ParseError == [err |-> TRUE]

\* The identifiers with a formatter and a parser: SubnetId{SubscriptionId,
\* ResourceGroup, VirtualNetworkName, Name}, RouteTableId and VaultId
\* {SubscriptionId, ResourceGroup, Name}.
IdFields ==
    [kind : {"Subnet"}, f : [1..4 -> FieldValues]]
    \cup [kind : {"RouteTable", "Vault"}, f : [1..3 -> FieldValues]]

\* SubnetId.ID() with the virtual network name and the subnet name exchanged.
SubnetIdIDSwapped(f) ==
    <<"/", "subscriptions", "/">> \o f[1] \o <<"/", "resourceGroups", "/">> \o f[2]
    \o <<"/", "providers", "/", "Microsoft.Network", "/", "virtualNetworks", "/">> \o f[4]
    \o <<"/", "subnets", "/">> \o f[3]

\* SubnetId.ID()
SubnetIdID(f) ==
    <<"/", "subscriptions", "/">> \o f[1] \o <<"/", "resourceGroups", "/">> \o f[2]
    \o <<"/", "providers", "/", "Microsoft.Network", "/", "virtualNetworks", "/">> \o f[3]
    \o <<"/", "subnets", "/">> \o f[4]

\* RouteTableId.ID()
RouteTableIdID(f) ==
    <<"/", "subscriptions", "/">> \o f[1] \o <<"/", "resourceGroups", "/">> \o f[2]
    \o <<"/", "providers", "/", "Microsoft.Network", "/", "routeTables", "/">> \o f[3]

\* VaultId.ID()
VaultIdID(f) ==
    <<"/", "subscriptions", "/">> \o f[1] \o <<"/", "resourceGroups", "/">> \o f[2]
    \o <<"/", "providers", "/", "Microsoft.KeyVault", "/", "vaults", "/">> \o f[3]

FormatID(fields) ==
    CASE fields.kind = "Subnet" -> SubnetIdID(fields.f)
      [] fields.kind = "RouteTable" -> RouteTableIdID(fields.f)
      [] fields.kind = "Vault" -> VaultIdID(fields.f)

RECURSIVE SplitFrom(_, _, _)
SplitFrom(s, cur, acc) ==
    IF s = <<>> THEN Append(acc, cur)
    ELSE IF Head(s) = "/" THEN SplitFrom(Tail(s), <<>>, Append(acc, cur))
    ELSE SplitFrom(Tail(s), Append(cur, Head(s)), acc)

\* strings.Split(strings.TrimSuffix(strings.TrimPrefix(path, "/"), "/"), "/")
Components(s) ==
    LET t == IF s # <<>> /\ Head(s) = "/" THEN Tail(s) ELSE s
        u == IF t # <<>> /\ t[Len(t)] = "/" THEN SubSeq(t, 1, Len(t) - 1) ELSE t
    IN SplitFrom(u, <<>>, <<>>)

\* azure.ParseAzureResourceID: alternating key / value components; an odd
\* count, an empty key or value, or no subscription is an error. The keys
\* subscriptions, providers and resourceGroups are matched whatever their
\* case; every other pair goes to Path under the key as supplied.
ParseAzureResourceID(s) ==
    LET c == Components(s)
        n == Len(c) \div 2
        Key(i) == c[2 * i - 1]
        Val(i) == c[2 * i]
        IsKey(i, name) == Key(i) # <<>> /\ EqualFold(Key(i)[1], name)
        First(name) == CHOOSE i \in 1..n : IsKey(i, name) /\ \A j \in 1..(i - 1) : ~IsKey(j, name)
        Has(name) == \E i \in 1..n : IsKey(i, name)
        Taken == {i \in 1..n : \E name \in {"subscriptions", "providers", "resourceGroups"} :
                                   Has(name) /\ i = First(name)}
        Rest == (1..n) \ Taken
    IN IF s = <<>> \/ Len(c) % 2 # 0 THEN ParseError
       ELSE IF \E i \in 1..n : Key(i) = <<>> \/ Val(i) = <<>> THEN ParseError
       ELSE IF ~Has("subscriptions") THEN ParseError
       ELSE [err |-> FALSE,
             SubscriptionID |-> Val(First("subscriptions")),
             ResourceGroup |-> IF Has("resourceGroups") THEN Val(First("resourceGroups")) ELSE <<>>,
             Path |-> [k \in {Key(i)[1] : i \in Rest} |->
                          Val(CHOOSE i \in Rest : Key(i)[1] = k /\ \A j \in Rest : Key(j)[1] = k => j <= i)]]

\* The popping of segments without its errors: a key that is not in Path
\* and a missing resource group yield empty fields.
PopSegmentsLenient(id, keys) ==
    IF id.err THEN ParseError
    ELSE [err |-> FALSE,
          f |-> <<id.SubscriptionID, id.ResourceGroup>>
                \o [i \in 1..Len(keys) |-> IF keys[i] \in DOMAIN id.Path THEN id.Path[keys[i]] ELSE <<>>]]

\* resourceId built by popping the segments named by keys from id.Path, then
\* id.ValidateNoEmptySegments: PopSegment fails on a key that is not in
\* Path, ValidateNoEmptySegments on a key that is left over.
PopSegments(id, keys) ==
    IF id.err THEN ParseError
    ELSE IF id.ResourceGroup = <<>> THEN ParseError
    ELSE IF \E i \in 1..Len(keys) : keys[i] \notin DOMAIN id.Path THEN ParseError
    ELSE IF DOMAIN id.Path # {keys[i] : i \in 1..Len(keys)} THEN ParseError
    ELSE [err |-> FALSE,
          f |-> <<id.SubscriptionID, id.ResourceGroup>> \o [i \in 1..Len(keys) |-> id.Path[keys[i]]]]

\* "find the correct casing for the segment": the key of id.Path equal to
\* name under strings.EqualFold, or name itself.
SuppliedCasing(id, name) ==
    IF ~id.err /\ \E k \in DOMAIN id.Path : EqualFold(k, name)
    THEN CHOOSE k \in DOMAIN id.Path : EqualFold(k, name)
    ELSE name

ParseSubnetID(s) == PopSegments(ParseAzureResourceID(s), <<"virtualNetworks", "subnets">>)

\* The insensitive parser with PopSegment called on the canonical keys.
subnetIDStrictKeys(s) == PopSegments(ParseAzureResourceID(s), <<"virtualNetworks", "subnets">>)

subnetIDInsensitively(s) ==
    LET id == ParseAzureResourceID(s)
    IN PopSegments(id, <<SuppliedCasing(id, "virtualNetworks"), SuppliedCasing(id, "subnets")>>)

ParseRouteTableID(s) == PopSegments(ParseAzureResourceID(s), <<"routeTables">>)

\* VaultID parses a Vault ID into a VaultId struct
VaultID(s) == PopSegments(ParseAzureResourceID(s), <<"vaults">>)

ParseID(kind, s) ==
    CASE kind = "Subnet" -> ParseSubnetID(s)
      [] kind = "RouteTable" -> ParseRouteTableID(s)
      [] kind = "Vault" -> VaultID(s)

\* The keys of the canonical string that are spelled in upper case in s.
Recased(s, K) == [i \in 1..Len(s) |-> IF s[i] \in K THEN UpperKey[s[i]] ELSE s[i]]

InitCodec ==
    /\ origin \in IdFields
    /\ input = <<>> /\ parsed = NoBody /\ dpc = "new"
    /\ PurgeInitFrozen /\ LockInitFrozen /\ CrudInitFrozen /\ CacheInitFrozen /\ AuxInitFrozen

\* id.ID()
Format ==
    /\ dpc = "new"
    /\ input' = FormatID(origin)
    /\ dpc' = "formatted"
    /\ UNCHANGED <<origin, parsed, purgeVars, lockVars, crudVars, cacheVars, auxVars>>

\* The API answers the identifier with some of its segment keys in another case.
RecaseKeys ==
    /\ dpc = "formatted"
    /\ \E K \in (SUBSET {input[i] : i \in 1..Len(input)} \cap SUBSET DOMAIN UpperKey) \ {{}} :
        input' = Recased(input, K)
    /\ dpc' = "recased"
    /\ UNCHANGED <<origin, parsed, purgeVars, lockVars, crudVars, cacheVars, auxVars>>

\* ParseSubnetID / ParseRouteTableID / VaultID on the identifier string
Parse ==
    /\ dpc \in {"formatted", "recased"}
    /\ parsed' = ParseID(origin.kind, input)
    /\ dpc' = "parsed"
    /\ UNCHANGED <<input, origin, purgeVars, lockVars, crudVars, cacheVars, auxVars>>

\* subnetIDInsensitively on the identifier string
ParseInsensitively ==
    /\ dpc \in {"formatted", "recased"}
    /\ origin.kind = "Subnet"
    /\ parsed' = subnetIDInsensitively(input)
    /\ dpc' = "parsedInsensitively"
    /\ UNCHANGED <<input, origin, purgeVars, lockVars, crudVars, cacheVars, auxVars>>

\* ParseResourceGroupID: no segment may follow the resource group.
ParseResourceGroupID(s) == PopSegments(ParseAzureResourceID(s), <<>>)

\* The identifier strings with a part missing: every proper prefix of s
\* (among them "" and "/"), and s with one key / value pair taken out.
Damaged(s) ==
    LET keyAt == {i \in 2..Len(s) : s[i] \in DOMAIN UpperKey /\ s[i - 1] = "/"}
        EndOf(i) == IF \E j \in keyAt : j > i
                    THEN (CHOOSE j \in keyAt : j > i /\ \A l \in keyAt : l > i => j <= l) - 2
                    ELSE Len(s)
    IN {SubSeq(s, 1, n) : n \in 0..(Len(s) - 1)}
       \cup {SubSeq(s, 1, i - 2) \o SubSeq(s, EndOf(i) + 1, Len(s)) : i \in keyAt}

\* A persisted or imported identifier string has lost a part.
Damage ==
    /\ dpc = "formatted"
    /\ input' \in Damaged(input)
    /\ dpc' = "damaged"
    /\ UNCHANGED <<origin, parsed, purgeVars, lockVars, crudVars, cacheVars, auxVars>>

\* ParseSubnetID / ParseRouteTableID / VaultID on such a string
ParseDamaged ==
    /\ dpc = "damaged"
    /\ parsed' = ParseID(origin.kind, input)
    /\ dpc' = "parsedDamaged"
    /\ UNCHANGED <<input, origin, purgeVars, lockVars, crudVars, cacheVars, auxVars>>

\* ParseResourceGroupID on such a string
ParseAsResourceGroup ==
    /\ dpc = "damaged"
    /\ parsed' = ParseResourceGroupID(input)
    /\ dpc' = "parsedAsResourceGroup"
    /\ UNCHANGED <<input, origin, purgeVars, lockVars, crudVars, cacheVars, auxVars>>

CodecNext ==
    \/ Format
    \/ RecaseKeys
    \/ Parse
    \/ ParseInsensitively
    \/ Damage
    \/ ParseDamaged
    \/ ParseAsResourceGroup

SpecCodec == InitCodec /\ [][CodecNext]_vars

AllNonEmpty(f) == \A i \in 1..Len(f) : f[i] # <<>>

NoSlash(f) == \A i \in 1..Len(f) : \A j \in 1..Len(f[i]) : f[i][j] # "/"

\* The string parsed is the one the formatter produced.
ParsedFormatted == dpc \in {"parsed", "parsedInsensitively"} /\ input = FormatID(origin)

ParsedRecased ==
    /\ dpc \in {"parsed", "parsedInsensitively"}
    /\ input # FormatID(origin)
    /\ ~ParseID(origin.kind, FormatID(origin)).err

\* One of the keys that follow the provider namespace is not spelled canonically.
CollectionKeyRecased ==
    \E i \in 1..Len(input) :
        input[i] \in {UpperKey[k] : k \in {"virtualNetworks", "subnets", "routeTables", "vaults"}}

\* C20: Parse matches segment keys case-insensitively: a string whose keys
\* differ from the canonical keys only in case parses to the same fields as
\* the canonical string.
C20_KeysCaseInsensitive ==
    ParsedRecased => parsed = ParseID(origin.kind, FormatID(origin))

\* C20 amended: subnetIDInsensitively parses such a string to the fields of
\* the canonical string, values in the case supplied; ParseSubnetID,
\* ParseRouteTableID and VaultID return an error when the key of a
\* collection (virtualNetworks, subnets, routeTables, vaults) is spelled in
\* another case.
C20_OnlyInsensitiveParserFoldsKeys ==
    ParsedRecased =>
        /\ dpc = "parsedInsensitively" => parsed = ParseSubnetID(FormatID(origin))
        /\ dpc = "parsed" /\ CollectionKeyRecased => parsed = ParseError

C20_Witness ==
    /\ dpc = "parsedInsensitively"
    /\ origin.f = << <<"a">>, <<"A">>, <<"A">>, <<"a">> >>
    /\ input = Recased(FormatID(origin), {"virtualNetworks", "subnets", "resourceGroups"})
    /\ parsed = [err |-> FALSE, f |-> origin.f]

\* The segments a parser requires.
RequiredKeys(kind) ==
    {"subscriptions", "resourceGroups"} \cup
    CASE kind = "Subnet" -> {"virtualNetworks", "subnets"}
      [] kind = "RouteTable" -> {"routeTables"}
      [] kind = "Vault" -> {"vaults"}
      [] kind = "ResourceGroup" -> {}

\* The string s holds the key k, in any case, followed by a non-empty value.
HasSegment(s, k) ==
    \E i \in 2..(Len(s) - 2) :
        s[i - 1] = "/" /\ EqualFold(s[i], k) /\ s[i + 1] = "/" /\ s[i + 2] # "/"

ParserUsed ==
    CASE dpc \in {"parsed", "parsedInsensitively", "parsedDamaged"} -> origin.kind
      [] dpc = "parsedAsResourceGroup" -> "ResourceGroup"
      [] OTHER -> None

\* C21: Parse returns an error, and no identifier value, for every input in
\* which a required segment key is missing or a required segment has an
\* empty value, the empty string and "/" among them.
C21_MissingSegmentIsError ==
    /\ ParserUsed # None
    /\ \E k \in RequiredKeys(ParserUsed) : ~HasSegment(input, k)
    => parsed = ParseError

C21_Witness ==
    /\ dpc = "parsedDamaged" /\ origin.kind = "Subnet"
    /\ AllNonEmpty(origin.f)
    /\ input = <<"/">>
    /\ parsed = ParseError

\* C22: a parse failure on the persisted identifier is fatal in every Read,
\* Update and Delete: the function returns the parse error before making any
\* remote call, and the failure is never ignored.
C22_ParseFailureFatal ==
    /\ ckind = "RoleDefinition" /\ cpc = "return"
    /\ cid # NoId
    /\ parseRoleDefinitionId(cid) = [err |-> TRUE]
    => cres = "err" /\ ccalls = <<>>

(***************************************************************************)
(* Concurrent key vault Creates: resourceArmKeyVaultCreate run by several  *)
(* workers against one vault name.  The lock table, the deferred unlocks   *)
(* and the return protocol are those of the subnet model; the vault is     *)
(* cremote and the requests sent are recorded in ccalls with their worker. *)
(***************************************************************************)

keyVaultResourceName == "azurestack_key_vault"

VaultName == "kv1"

\* The virtual networks named by the network ACLs' subnet ids of one Create.
VaultOps == [kind : {"VaultCreate"}, vnets : {<<>>, <<VnetName>>}]

CallBy(w, name, status) ==
    ccalls' = Append(ccalls, [name |-> name, status |-> status, by |-> w])

VaultUnchanged == <<ckind, cop, cpc, cid, cres, cstart, cgot, desired, prior, cdone,
                    local, subnets, nics, opsDone, op,
                    purgeVars, cacheVars, codecVars, auxVars>>

BeginVaultCreate(w) ==
    /\ pc[w] = "idle"
    /\ opsDone[w] < MaxOps
    /\ \E o \in VaultOps : op' = [op EXCEPT ![w] = o]
    /\ Goto(w, "VaultCreate")
    /\ UNCHANGED <<locked, defers, local, rid, res, subnets, nics, opsDone,
                   purgeVars, restVars>>

VaultCreateNoLock(w) ==
    /\ pc[w] = "VaultCreate"
    /\ Goto(w, "VaultCreate:probe")
    /\ UNCHANGED <<locked, defers, rid, res, ccalls, cremote, VaultUnchanged>>

VaultCreateLock(w) ==
    /\ pc[w] = "VaultCreate"
    /\ LockAndDefer(w, LockKey(VaultName, keyVaultResourceName))
    /\ Goto(w, "VaultCreate:probe")
    /\ UNCHANGED <<rid, res, ccalls, cremote, VaultUnchanged>>

VaultCreateProbe(w) ==
    /\ pc[w] = "VaultCreate:probe"
    /\ \E st \in GetStatuses :
        /\ CallBy(w, "Get", st)
        /\ IF WasNotFound(st)
           THEN Goto(w, "VaultCreate:deleted") /\ UNCHANGED res
           ELSE ReturnWith(w, "err")
    /\ UNCHANGED <<locked, defers, rid, cremote, VaultUnchanged>>

VaultCreateGetDeleted(w) ==
    /\ pc[w] = "VaultCreate:deleted"
    /\ \E st \in {200, 403, 404, 500} :
        /\ CallBy(w, "GetDeleted", st)
        /\ IF IsErr(st) /\ ~WasNotFound(st) /\ st # 403
           THEN ReturnWith(w, "err")
           ELSE Goto(w, "VaultCreate:vnets") /\ UNCHANGED res
    /\ UNCHANGED <<locked, defers, rid, cremote, VaultUnchanged>>

VaultCreateLockVnets(w) ==
    /\ pc[w] = "VaultCreate:vnets"
    /\ IF op[w].vnets = <<>>
       THEN UNCHANGED <<locked, defers>>
       ELSE LockAndDefer(w, LockKey(op[w].vnets[1], virtualNetworkResourceName))
    /\ Goto(w, "VaultCreate:put")
    /\ UNCHANGED <<rid, res, ccalls, cremote, VaultUnchanged>>

VaultCreatePut(w) ==
    /\ pc[w] = "VaultCreate:put"
    /\ \E st \in PutStatuses, sid \in ServerIds :
        /\ CallBy(w, "CreateOrUpdate", st)
        /\ IF IsErr(st)
           THEN ReturnWith(w, "err") /\ UNCHANGED cremote
           ELSE /\ cremote' = Written(sid, FALSE, 7)
                /\ Goto(w, "VaultCreate:get") /\ UNCHANGED res
    /\ UNCHANGED <<locked, defers, rid, VaultUnchanged>>

VaultCreateGet(w) ==
    /\ pc[w] = "VaultCreate:get"
    /\ \E st \in GetStatuses :
        /\ CallBy(w, "Get", st)
        /\ IF IsErr(st)
           THEN ReturnWith(w, "err") /\ UNCHANGED rid
           ELSE /\ rid' = [rid EXCEPT ![w] = ClientId]
                /\ ReturnWith(w, "ok")
    /\ UNCHANGED <<locked, defers, cremote, VaultUnchanged>>

resourceArmKeyVaultCreateBy(w) ==
    \/ VaultCreateLock(w)
    \/ VaultCreateProbe(w)
    \/ VaultCreateGetDeleted(w)
    \/ VaultCreateLockVnets(w)
    \/ VaultCreatePut(w)
    \/ VaultCreateGet(w)

InitVault ==
    /\ PurgeInitFrozen /\ LockInitFrozen
    /\ ckind = None /\ cop = None /\ cpc = "idle" /\ cid = NoId /\ cres = "none"
    /\ ccalls = <<>> /\ cremote \in {Absent} \cup [id : ServerIds, by : {"other"}, purge : {FALSE}, retention : {30}]
    /\ cstart = Absent /\ cgot = NoId
    /\ desired = NoBody /\ prior = NoBody /\ cdone = 0
    /\ CacheInitFrozen /\ CodecInitFrozen /\ AuxInitFrozen

VaultNext ==
    \E w \in Workers :
        \/ BeginVaultCreate(w)
        \/ resourceArmKeyVaultCreateBy(w)
        \/ RunDeferred(w)
        \/ Finish(w)

SpecVault == InitVault /\ [][VaultNext]_vars

CreatesIssued == {i \in DOMAIN ccalls : ccalls[i].name = "CreateOrUpdate"}

\* The part of a Create that runs under the key-vault named lock: from the probe
\* up to the return.
InVaultSection(w) ==
    pc[w] \in {"VaultCreate:probe", "VaultCreate:deleted", "VaultCreate:vnets",
               "VaultCreate:put", "VaultCreate:get"}

VaultSectionsExclusive ==
    \A v, w \in Workers : InVaultSection(v) /\ InVaultSection(w) => v = w

NoCreateAfterCreated ==
    \A i, j \in DOMAIN ccalls :
        /\ i < j
        /\ ccalls[i].name = "CreateOrUpdate"
        /\ ~IsErr(ccalls[i].status)
        => /\ ccalls[j].name # "CreateOrUpdate"
           /\ ccalls[j].by # ccalls[i].by =>
                  ccalls[j].name = "Get" /\ ccalls[j].status # 404

\* C23 (as stated): of two concurrent Creates for the same key vault name, at most
\* one issues CreateOrUpdate.
C23_AtMostOneCreateIssued ==
    \A i, j \in CreatesIssued : ccalls[i].by = ccalls[j].by

\* C23: the probe and the CreateOrUpdate of one Create run under the key-vault
\* named lock, so the sections of two Creates never overlap; once one
\* CreateOrUpdate has succeeded no later CreateOrUpdate is issued, and the other
\* Create only probes, sees the vault (never a 404) and fails.  A Create whose
\* CreateOrUpdate failed leaves the way open for the other one.
C23_CreateSectionsSerialised ==
    /\ VaultSectionsExclusive
    /\ NoCreateAfterCreated
    /\ \A w \in Workers :
        /\ pc[w] = "return"
        /\ \E i \in CreatesIssued : ccalls[i].by # w /\ ~IsErr(ccalls[i].status)
                                    /\ \E j \in DOMAIN ccalls : j > i /\ ccalls[j].by = w
        => res[w] = "err"

C23_Witness ==
    /\ Len(ccalls) >= 5
    /\ ccalls[3] = [name |-> "CreateOrUpdate", status |-> 200, by |-> "w1"]
    /\ ccalls[5] = [name |-> "Get", status |-> 200, by |-> "w2"]
    /\ pc["w2"] = "return" /\ res["w2"] = "err"

(***************************************************************************)
(* The association operations alone: workers that run only                 *)
(* resourceArmSubnetRouteTableAssociationCreate and ...Delete, several in  *)
(* a row.                                                                  *)
(***************************************************************************)

MaxAssocOps == 2

AssocOps == {o \in SubnetOps : o.kind \in {"AssocCreate", "AssocDelete"}}

BeginAssocOp(w) ==
    /\ pc[w] = "idle"
    /\ opsDone[w] < MaxAssocOps
    /\ \E o \in AssocOps :
        /\ op' = [op EXCEPT ![w] = o]
        /\ rid' = [rid EXCEPT ![w] = IF o.kind = "AssocDelete" THEN <<o.subnet>> ELSE NoId]
        /\ pc' = [pc EXCEPT ![w] = o.kind]
    /\ UNCHANGED <<locked, defers, local, res, subnets, nics, opsDone, purgeVars, restVars>>

AssocNext ==
    \E w \in Workers :
        \/ BeginAssocOp(w)
        \/ resourceArmSubnetRouteTableAssociationCreate(w)
        \/ resourceArmSubnetRouteTableAssociationDelete(w)
        \/ RunDeferred(w)
        \/ Finish(w)

SpecAssoc == InitLock /\ [][AssocNext]_vars

\* The locks worker w holds: those it took and has not yet released.
HeldBy(w) == {defers[w][i] : i \in DOMAIN defers[w]}

\* C24: when association Delete re-reads the subnet under its locks and when it
\* issues the CreateOrUpdate that clears the route table, it holds the named lock
\* of the route table attached to the subnet in the body it writes over.
C24_DeleteHoldsAttachedRouteTableLock ==
    \A w \in Workers :
        /\ pc[w] \in {"AssocDelete:reget", "AssocDelete:put"}
        /\ subnets[op[w].subnet] # Absent
        /\ subnets[op[w].subnet].rt # None
        => LockKey(subnets[op[w].subnet].rt, routeTableResourceName) \in HeldBy(w)

\* The body an association operation prepares from the body its Get returned
\* differs from it in the targeted pool of the targeted IP configuration only.
OnlyTargetedPoolChanged(w) ==
    LET body == nics[op[w].nic] IN
    /\ DOMAIN local'[w] = DOMAIN body
    /\ \A i \in DOMAIN body :
        IF i = op[w].ipc
        THEN local'[w][i] \ {op[w].pool} = body[i] \ {op[w].pool}
        ELSE local'[w][i] = body[i]

PoolFrame ==
    \A w \in Workers :
        /\ pc[w] \in {"NicCreate:get", "NicDelete:get"}
           /\ pc'[w] \in {"NicCreate:put", "NicDelete:put"}
           => OnlyTargetedPoolChanged(w)
        /\ pc[w] = "NicCreate:put" /\ pc'[w] = "NicRead"
           => nics'[op[w].nic] = local[w]
        /\ pc[w] = "NicDelete:put" /\ pc'[w] = "return"
           => \A i \in DOMAIN nics[op[w].nic] :
                 nics[op[w].nic][i] \ {op[w].pool} \subseteq nics'[op[w].nic][i]

DeleteWritesNicRead ==
    \A w \in Workers :
        pc[w] = "NicDelete:put" /\ pc'[w] = "return" /\ res'[w] = "ok"
        => nics'[op[w].nic] = local[w]

\* C26: association Delete sends its CreateOrUpdate to the network interface it
\* read with Get: after a successful Delete that interface has the body the
\* Delete prepared.
C26_DeleteWritesNicRead == [][DeleteWritesNicRead]_vars

\* The access to the map keyVaultsCache worker w is about to make, if any.
CacheAccess(w) ==
    IF kpc[w] = "addwrite" THEN "write"
    ELSE IF kpc[w] = "body" /\ kop[w].kind = "PurgeKeyVaultCache" THEN "write"
    ELSE IF kpc[w] = "body" /\ kop[w].kind \in {"KeyVaultIDFromBaseUrl", "KeyVaultExists"}
    THEN "read"
    ELSE "none"

\* The locks worker w holds: keysmith and the per-key mutexes of the map lock.
CacheLocksHeld(w) ==
    (IF keysmith = w THEN {<<"keysmith">>} ELSE {})
        \cup {<<"lock", k>> : k \in {c \in CacheKeys : held[c] = w}}

\* C27: the key-vault cache map is never written by one worker while another
\* reads or writes it: two workers that are at an access of the map at the same
\* time, one of them at a write, hold one common lock (which, the locks being
\* exclusive, means that they are never there together).
C27_CacheAccessesExcluded ==
    \A v, w \in Workers :
        v # w /\ CacheAccess(v) = "write" /\ CacheAccess(w) # "none"
        => CacheLocksHeld(v) \cap CacheLocksHeld(w) # {}

(***************************************************************************)
(* The storage account key cache: getKeyForStorageAccount called by        *)
(* several workers.  The workers' positions, arguments and results are     *)
(* pc, op, local, rid and res of the lock model.                           *)
(***************************************************************************)

StorageAccounts == {"rg1/acct1", "rg1/acct2"}
StorageKeys == {"key1", "key2"}
NoKey == "nokey"

\* What ListKeys answers: not found, an error, a body without a usable first
\* key, or the account's current first key.
ListKeysAnswers == {"404", "err", "nokeys"} \cup StorageKeys

StorageUnchanged == <<locked, defers, subnets, nics, purgeVars, crudVars, cacheVars,
                      codecVars, rpc, elapsed, attempts, rres,
                      lpc, listValues, position, resources>>

BeginGetKey(w) ==
    /\ pc[w] = "idle"
    /\ opsDone[w] < MaxOps
    /\ \E a \in StorageAccounts :
        op' = [op EXCEPT ![w] = [kind |-> "getKeyForStorageAccount", account |-> a]]
    /\ Goto(w, "getKey")
    /\ UNCHANGED <<local, rid, res, opsDone, storageKeyCache, storageKeyCacheMu, listKeys,
                   StorageUnchanged>>

\* storageKeyCacheMu.RLock()
GetKeyRLock(w) ==
    /\ pc[w] = "getKey"
    /\ storageKeyCacheMu.writer = None
    /\ storageKeyCacheMu' = [storageKeyCacheMu EXCEPT !.readers = @ \cup {w}]
    /\ Goto(w, "getKey:read")
    /\ UNCHANGED <<op, local, rid, res, opsDone, storageKeyCache, listKeys, StorageUnchanged>>

\* key, ok := storageKeyCache[cacheIndex]; storageKeyCacheMu.RUnlock(); if ok { return }
GetKeyRead(w) ==
    /\ pc[w] = "getKey:read"
    /\ storageKeyCacheMu' = [storageKeyCacheMu EXCEPT !.readers = @ \ {w}]
    /\ local' = [local EXCEPT ![w] = storageKeyCache[op[w].account]]
    /\ IF storageKeyCache[op[w].account] # NoKey
       THEN /\ rid' = [rid EXCEPT ![w] = <<storageKeyCache[op[w].account]>>]
            /\ ReturnWith(w, "ok")
       ELSE Goto(w, "getKey:lock") /\ UNCHANGED <<rid, res>>
    /\ UNCHANGED <<op, opsDone, storageKeyCache, listKeys, StorageUnchanged>>

\* storageKeyCacheMu.Lock(); defer storageKeyCacheMu.Unlock()
GetKeyLock(w) ==
    /\ pc[w] = "getKey:lock"
    /\ storageKeyCacheMu = [writer |-> None, readers |-> {}]
    /\ storageKeyCacheMu' = [storageKeyCacheMu EXCEPT !.writer = w]
    /\ Goto(w, "getKey:recheck")
    /\ UNCHANGED <<op, local, rid, res, opsDone, storageKeyCache, listKeys, StorageUnchanged>>

\* the second look-up left out: always on to ListKeys
GetKeyNoRecheck(w) ==
    /\ pc[w] = "getKey:recheck"
    /\ Goto(w, "getKey:list")
    /\ UNCHANGED <<op, local, rid, res, opsDone, storageKeyCache, storageKeyCacheMu,
                   listKeys, StorageUnchanged>>

\* key, ok = storageKeyCache[cacheIndex]; if !ok { ... }
GetKeyRecheck(w) ==
    /\ pc[w] = "getKey:recheck"
    /\ local' = [local EXCEPT ![w] = storageKeyCache[op[w].account]]
    /\ IF storageKeyCache[op[w].account] # NoKey
       THEN /\ rid' = [rid EXCEPT ![w] = <<storageKeyCache[op[w].account]>>]
            /\ res' = [res EXCEPT ![w] = "ok"]
            /\ Goto(w, "getKey:unlock")
       ELSE Goto(w, "getKey:list") /\ UNCHANGED <<rid, res>>
    /\ UNCHANGED <<op, opsDone, storageKeyCache, storageKeyCacheMu, listKeys,
                   StorageUnchanged>>

\* ListKeys and what is made of its answer; only a usable first key is cached
GetKeyListKeys(w) ==
    /\ pc[w] = "getKey:list"
    /\ \E answer \in ListKeysAnswers :
        /\ listKeys' = Append(listKeys, [account |-> op[w].account, by |-> w,
                                         call |-> opsDone[w], answer |-> answer])
        /\ IF answer \in StorageKeys
           THEN /\ storageKeyCache' = [storageKeyCache EXCEPT ![op[w].account] = answer]
                /\ local' = [local EXCEPT ![w] = answer]
                /\ rid' = [rid EXCEPT ![w] = <<answer>>]
                /\ res' = [res EXCEPT ![w] = "ok"]
           ELSE /\ res' = [res EXCEPT ![w] = IF answer = "404" THEN "notfound" ELSE "err"]
                /\ UNCHANGED <<storageKeyCache, local, rid>>
    /\ Goto(w, "getKey:unlock")
    /\ UNCHANGED <<op, opsDone, storageKeyCacheMu, StorageUnchanged>>

\* the deferred storageKeyCacheMu.Unlock()
GetKeyUnlock(w) ==
    /\ pc[w] = "getKey:unlock"
    /\ storageKeyCacheMu' = [storageKeyCacheMu EXCEPT !.writer = None]
    /\ Goto(w, "return")
    /\ UNCHANGED <<op, local, rid, res, opsDone, storageKeyCache, listKeys, StorageUnchanged>>

\* the caller is done with the answer
GetKeyDone(w) ==
    /\ pc[w] = "return"
    /\ pc' = [pc EXCEPT ![w] = "idle"]
    /\ op' = [op EXCEPT ![w] = NoOp]
    /\ local' = [local EXCEPT ![w] = NoBody]
    /\ rid' = [rid EXCEPT ![w] = NoId]
    /\ res' = [res EXCEPT ![w] = "none"]
    /\ opsDone' = [opsDone EXCEPT ![w] = @ + 1]
    /\ UNCHANGED <<storageKeyCache, storageKeyCacheMu, listKeys, StorageUnchanged>>

getKeyForStorageAccount(w) ==
    \/ GetKeyRLock(w)
    \/ GetKeyRead(w)
    \/ GetKeyLock(w)
    \/ GetKeyRecheck(w)
    \/ GetKeyListKeys(w)
    \/ GetKeyUnlock(w)

InitStorage ==
    /\ PurgeInitFrozen /\ LockInitFrozen
    /\ CrudInitFrozen /\ CacheInitFrozen /\ CodecInitFrozen
    /\ RetryInitFrozen /\ ListInitFrozen
    /\ storageKeyCache = [a \in StorageAccounts |-> NoKey]
    /\ storageKeyCacheMu = [writer |-> None, readers |-> {}]
    /\ listKeys = <<>>

StorageNext ==
    \E w \in Workers :
        \/ BeginGetKey(w)
        \/ getKeyForStorageAccount(w)
        \/ GetKeyDone(w)

SpecStorage == InitStorage /\ [][StorageNext]_vars

\* The ListKeys calls for account a that delivered a key.
KeyDeliveries(a) ==
    {i \in DOMAIN listKeys : listKeys[i].account = a /\ listKeys[i].answer \in StorageKeys}

\* C28: under any interleaving of concurrent callers ListKeys delivers a key at
\* most once per storage account: once a key is cached for an account no later
\* call issues ListKeys for that account, the cached key is the one delivered and
\* stays, and every call returns it unless its own ListKeys failed before.
C28_ListKeysOncePerAccount ==
    /\ \A a \in StorageAccounts :
        /\ Cardinality(KeyDeliveries(a)) <= 1
        /\ \A i \in KeyDeliveries(a), j \in DOMAIN listKeys :
              listKeys[j].account = a => j <= i
        /\ IF KeyDeliveries(a) = {}
           THEN storageKeyCache[a] = NoKey
           ELSE \A i \in KeyDeliveries(a) : storageKeyCache[a] = listKeys[i].answer
    /\ \A w \in Workers :
        pc[w] \in {"getKey:unlock", "return"} =>
            IF res[w] = "ok"
            THEN rid[w] = <<storageKeyCache[op[w].account]>>
                 /\ storageKeyCache[op[w].account] # NoKey
            ELSE \E i \in DOMAIN listKeys :
                    /\ listKeys[i].by = w /\ listKeys[i].call = opsDone[w]
                    /\ listKeys[i].account = op[w].account
                    /\ listKeys[i].answer \notin StorageKeys

\* Both workers asked for the same account; the first one's ListKeys delivered the
\* key and the second one found it in the cache at its second look-up, under the
\* write lock, without a ListKeys of its own.
C28_Witness ==
    /\ Len(listKeys) = 1
    /\ listKeys[1].by = "w1" /\ listKeys[1].answer = "key2"
    /\ pc["w2"] = "getKey:unlock" /\ res["w2"] = "ok" /\ rid["w2"] = <<"key2">>
    /\ op["w2"].account = listKeys[1].account
    /\ storageKeyCacheMu.writer = "w2"

(***************************************************************************)
(* Virtual network peering Create: resource.Retry around                   *)
(* retryVnetPeeringsClientCreateUpdate.  Time is counted in seconds and    *)
(* advances in steps of RetryTick.                                         *)
(***************************************************************************)

RetryTimeout == 300
RetryTick == 100
MaxAttempts == 3

\* What one attempt meets: the error of CreateOrUpdate, whether
\* response.ResponseErrorIsRetryable holds of it, the status code and whether the
\* message names ReferencedResourceNotProvisioned, and the outcome of the wait.
AttemptOutcomes ==
    {[err |-> FALSE, transient |-> FALSE, status |-> 200, notProvisioned |-> FALSE, wait |-> "ok"],
     [err |-> FALSE, transient |-> FALSE, status |-> 200, notProvisioned |-> FALSE, wait |-> "err"],
     [err |-> TRUE, transient |-> TRUE, status |-> 500, notProvisioned |-> FALSE, wait |-> "none"],
     [err |-> TRUE, transient |-> FALSE, status |-> 400, notProvisioned |-> TRUE, wait |-> "none"],
     [err |-> TRUE, transient |-> FALSE, status |-> 400, notProvisioned |-> FALSE, wait |-> "none"],
     [err |-> TRUE, transient |-> FALSE, status |-> 409, notProvisioned |-> TRUE, wait |-> "none"]}

\* every HTTP 400 taken for retryable
retryAnyBadRequest(o) ==
    IF o.err
    THEN IF o.transient THEN "retryable"
         ELSE IF o.status = 400 THEN "retryable"
         ELSE "nonretryable"
    ELSE IF o.wait = "err" THEN "nonretryable"
    ELSE "nil"

retryVnetPeeringsClientCreateUpdate(o) ==
    IF o.err
    THEN IF o.transient THEN "retryable"
         ELSE IF o.status = 400 /\ o.notProvisioned THEN "retryable"
         ELSE "nonretryable"
    ELSE IF o.wait = "err" THEN "nonretryable"
    ELSE "nil"

RetryUnchanged == <<purgeVars, lockVars, crudVars, cacheVars, codecVars,
                    storageKeyCache, storageKeyCacheMu, listKeys,
                    lpc, listValues, position, resources>>

\* resource.Retry(300*time.Second, f) is entered
BeginRetry ==
    /\ rpc = "idle"
    /\ rpc' = "attempt"
    /\ UNCHANGED <<elapsed, attempts, rres, RetryUnchanged>>

\* one call of f and what Retry makes of its answer
RetryAttempt ==
    /\ rpc = "attempt"
    /\ \E o \in AttemptOutcomes :
        /\ attempts' = Append(attempts, o)
        /\ LET r == retryVnetPeeringsClientCreateUpdate(o) IN
           IF r = "retryable"
           THEN rpc' = "sleep" /\ UNCHANGED rres
           ELSE rpc' = "done" /\ rres' = (IF r = "nil" THEN "ok" ELSE "err")
    /\ UNCHANGED <<elapsed, RetryUnchanged>>

\* the pause before the next call of f
RetryAgain ==
    /\ rpc = "sleep"
    /\ Len(attempts) < MaxAttempts
    /\ rpc' = "attempt"
    /\ UNCHANGED <<elapsed, attempts, rres, RetryUnchanged>>

RetryClock ==
    /\ rpc \in {"attempt", "sleep"}
    /\ elapsed < RetryTimeout
    /\ elapsed' = elapsed + RetryTick
    /\ UNCHANGED <<rpc, attempts, rres, RetryUnchanged>>

\* the timeout of Retry: the loop is left with a timeout error
RetryTimedOut ==
    /\ rpc \in {"attempt", "sleep"}
    /\ elapsed >= RetryTimeout
    /\ rpc' = "done" /\ rres' = "timeout"
    /\ UNCHANGED <<elapsed, attempts, RetryUnchanged>>

InitRetry ==
    /\ PurgeInitFrozen /\ LockInitFrozen
    /\ CrudInitFrozen /\ CacheInitFrozen /\ CodecInitFrozen
    /\ StorageInitFrozen /\ ListInitFrozen
    /\ rpc = "idle" /\ elapsed = 0 /\ attempts = <<>> /\ rres = "none"

RetryNext ==
    \/ BeginRetry
    \/ RetryAttempt
    \/ RetryAgain
    \/ RetryClock
    \/ RetryTimedOut

SpecRetry == InitRetry /\ [][RetryNext]_vars

\* The clock advances and a step that can be taken is taken.
SpecRetryFair == SpecRetry /\ WF_vars(RetryNext)

\* The errors after which another attempt is made, in the words of the claim: a
\* transient error of CreateOrUpdate or its HTTP 400 ReferencedResourceNotProvisioned.
RetryableCreateError(o) ==
    o.err /\ (o.transient \/ (o.status = 400 /\ o.notProvisioned))

RetryStops ==
    /\ \A i \in DOMAIN attempts : i < Len(attempts) => RetryableCreateError(attempts[i])
    /\ rpc = "sleep" => RetryableCreateError(attempts[Len(attempts)])
    /\ rpc = "done" =>
        \/ rres = "ok" /\ ~attempts[Len(attempts)].err /\ attempts[Len(attempts)].wait = "ok"
        \/ rres = "err" /\ ~RetryableCreateError(attempts[Len(attempts)])
        \/ rres = "timeout" /\ elapsed >= RetryTimeout

MaxListLen == 3

\* A listed resource: its ID (NoId for a nil ID) and whether its tags match the
\* required tags.
ListedResources == [id : {NoId, <<"res1">>, <<"res2">>}, tagsMatch : BOOLEAN]

ListUnchanged == <<purgeVars, lockVars, crudVars, cacheVars, codecVars,
                   storageKeyCache, storageKeyCacheMu, listKeys,
                   rpc, elapsed, attempts, rres>>

\* resource, err := client.ListComplete(ctx, filter, "", nil)
ListComplete ==
    /\ lpc = "idle"
    /\ \E ok \in BOOLEAN : lpc' = IF ok THEN "loop" ELSE "err"
    /\ position' = 1
    /\ UNCHANGED <<listValues, resources, ListUnchanged>>

NotDone == position <= Len(listValues)

\* for resource.NotDone() { res := resource.Value()
EnterBody ==
    /\ lpc = "loop" /\ NotDone
    /\ lpc' = "body"
    /\ UNCHANGED <<listValues, position, resources, ListUnchanged>>

\* if res.ID == nil { continue }: back to the loop condition, the iterator untouched
SkipNilID ==
    /\ lpc = "body"
    /\ listValues[position].id = NoId
    /\ lpc' = "loop"
    /\ UNCHANGED <<listValues, position, resources, ListUnchanged>>

\* the tag filter, the append and resource.NextWithContext(ctx)
CollectAndAdvance ==
    /\ lpc = "body"
    /\ listValues[position].id # NoId
    /\ resources' = IF listValues[position].tagsMatch
                    THEN Append(resources, listValues[position].id)
                    ELSE resources
    /\ \E ok \in BOOLEAN :
        IF ok THEN position' = position + 1 /\ lpc' = "loop"
              ELSE lpc' = "err" /\ UNCHANGED position
    /\ UNCHANGED <<listValues, ListUnchanged>>

\* the loop is left: d.SetId(...), d.Set("resources", resources), return nil
ListDone ==
    /\ lpc = "loop" /\ ~NotDone
    /\ lpc' = "done"
    /\ UNCHANGED <<listValues, position, resources, ListUnchanged>>

dataSourceArmResourcesRead ==
    \/ ListComplete
    \/ EnterBody
    \/ SkipNilID
    \/ CollectAndAdvance
    \/ ListDone

BoundedLists ==
    UNION {[1..n -> ListedResources] : n \in 0..MaxListLen}

InitList ==
    /\ PurgeInitFrozen /\ LockInitFrozen
    /\ CrudInitFrozen /\ CacheInitFrozen /\ CodecInitFrozen
    /\ StorageInitFrozen /\ RetryInitFrozen
    /\ lpc = "idle" /\ listValues \in BoundedLists /\ position = 0 /\ resources = <<>>

SpecList == InitList /\ [][dataSourceArmResourcesRead]_vars

\* The function keeps running: a step that changes its state is taken when there is one.
SpecListFair == SpecList /\ WF_vars(dataSourceArmResourcesRead)

\* C30: dataSourceArmResourcesRead terminates for every finite list: once in the
\* loop it returns, with the resources or with an error.
C30_ReadTerminates == (lpc \in {"loop", "body"}) ~> (lpc \in {"done", "err"})

InitPurge == PurgeInit /\ LockInitFrozen /\ RestInitFrozen

SpecPurge == InitPurge /\ [][PurgeNext]_vars

====
